---- MODULE Spec2Model ----
(***************************************************************************)
(* Verification model of the f1-bot data pipeline.                         *)
(*                                                                         *)
(*   SpecErgast   f1/api.py (the Ergast endpoints and get_driver_career)   *)
(*                on top of f1/fetch.py (the uncached fetch it imports).   *)
(*   SpecFetch    f1/api/fetch.py (the cached fetch) together with the     *)
(*                disable-cache command of f1/cogs/admin.py.               *)
(*   FairSpecFetch  SpecFetch with the event loop running what is due.     *)
(*   SpecResolve  f1/utils.py find_driver and f1/api.py get_driver_info.   *)
(*   SpecRank     f1/utils.py rank_best_lap_times and filter_times.        *)
(*   SpecParse    f1/api.py: what the endpoints read from a document.      *)
(*   SpecStats    f1/api/stats.py: the statistics functions.               *)
(*   SpecConfig   f1/config.py: the Config singleton.                      *)
(*   SpecPitstops f1/utils.py rank_pitstops.                               *)
(*   SpecCommands f1/commands.py: DISABLE_DM and the command events.       *)
(*   SpecStatus   f1/api.py check_status.                                  *)
(*   SpecAdmin    f1/cogs/admin.py: successive disable-cache commands.     *)
(*   SpecLaps     f1/api.py get_all_laps_for_driver.                       *)
(*                                                                         *)
(* aiohttp and aiohttp_client_cache are modelled by their contracts: a     *)
(* total timeout raises asyncio.TimeoutError; the cache stores 200         *)
(* responses under the request URL with the expiry of the first matching   *)
(* urls_expire_after pattern; inside session.disabled() a request neither  *)
(* reads nor writes the cache.                                             *)
(*                                                                         *)
(* Every specification leaves the variables of the other parts at their    *)
(* initial values.                                                         *)
(***************************************************************************)
EXTENDS Integers, Sequences, FiniteSets, TLC

VARIABLES
    call,               \* f1/api.py: the top-level coroutine being awaited
    sub,                \* f1/api.py: the five sub-queries of get_driver_career
    gather,             \* f1/api.py: the outer future of asyncio.gather
    use_cache,          \* f1/api/fetch.py: module flag use_cache
    ff1_cache_enabled,  \* fastf1 Cache enabled flag toggled by the admin cog
    cache,              \* f1/api/fetch.py: the SQLiteBackend, keyed by URL
    req,                \* f1/api/fetch.py: the running fetch() coroutines
    timers,             \* f1/cogs/admin.py: pending _enable_cache tasks (seconds left)
    last,               \* f1/api/fetch.py: the fetch() call that completed last
    ncalls,             \* number of fetch() calls made so far
    ndisable,           \* number of disable-cache commands issued so far
    DRIVERS,            \* f1/api.py: the driver list loaded at import
    lookup,             \* f1/api.py: the last get_driver_info call
    timings,            \* f1/utils.py: the dict handed to rank_best_lap_times
    given,              \* the lap times as they were before any call
    ranked,             \* f1/utils.py: what rank_best_lap_times returned
    filtered,           \* f1/utils.py: the last filter_times call on the ranking
    document,           \* f1/api.py: the parsed response (soup) an endpoint works on
    parsed,             \* f1/api.py: the endpoint that ran on soup and its outcome
    session,            \* f1/api/stats.py: the loaded fastf1 session
    stat,               \* f1/api/stats.py: the statistics function called and its outcome
    _instance,          \* f1/config.py: Config._instance
    allocated,          \* number of Config objects allocated
    settings_loads,     \* number of times the settings file was loaded
    bots_built,         \* number of bot clients constructed
    exited,             \* sys.exit was called
    config_calls,       \* the outcomes of the Config() calls made so far
    files,              \* config.ini and version.txt as the process finds them
    pitstops,           \* f1/api.py: the dict get_pitstops returned
    stops_ranked,       \* f1/utils.py: what rank_pitstops returned
    DISABLE_DM,         \* f1/commands.py: module flag DISABLE_DM
    TABLE_DM,           \* config: answers of this type go to the author's DM
    running,            \* the commands invoked and not yet completed or failed
    routed,             \* what get_target answered to each command
    nmessages,          \* number of messages seen so far
    status_check,       \* f1/api.py: the check_status call of the status command
    period_left,        \* f1/cogs/admin.py: seconds left of the minutes the latest disable-cache command announced
    race_laps,          \* f1/api.py: the 'data' of the dict get_all_laps returned
    driver_laps         \* f1/api.py: the get_all_laps_for_driver call and its outcome

ergastVars == <<call, sub, gather>>
fetchVars == <<use_cache, ff1_cache_enabled, cache, req, last, timers, ncalls, ndisable>>
resolveVars == <<DRIVERS, lookup>>
rankVars == <<timings, given, ranked, filtered>>
vars == <<call, sub, gather, use_cache, ff1_cache_enabled, cache, req, last, timers,
          ncalls, ndisable, DRIVERS, lookup, timings, given, ranked, filtered,
          document, parsed,
          session, stat,
          _instance, allocated, settings_loads, bots_built, exited, config_calls, files,
          pitstops, stops_ranked,
          DISABLE_DM, TABLE_DM, running, routed, nmessages,
          status_check,
          period_left,
          race_laps, driver_laps>>
parseVars == <<document, parsed>>
statsVars == <<session, stat>>
configVars == <<_instance, allocated, settings_loads, bots_built, exited, config_calls, files>>
pitVars == <<pitstops, stops_ranked>>
commandVars == <<DISABLE_DM, TABLE_DM, running, routed, nmessages>>
statusVars == <<status_check>>
adminVars == <<period_left>>
lapsVars == <<race_laps, driver_laps>>

(***************************************************************************)
(* Values shared by the parts.                                             *)
(***************************************************************************)

\* Python's None, as a payload value.
None == "None"

\* A coroutine's outcome: a returned value or a raised exception.
\* total is the MRData total attribute carried by a parsed document.
Returned(v, n) == [kind |-> "return", val |-> v, total |-> n]
Raised(e) == [kind |-> "raise", val |-> e, total |-> 0]
NoOutcome == [kind |-> "none", val |-> "", total |-> 0]

\* Largest MRData total a response document reports in the model.
MaxTotal == 1

HttpStatuses == {200, 404}

(***************************************************************************)
(* f1/fetch.py: the fetch imported by f1/api.py.                           *)
(***************************************************************************)

\* What the awaited session.get can do: answer with a status, fail with an
\* aiohttp.ClientError, or run into ClientTimeout(total=SESSION_TIMEOUT),
\* which aiohttp reports as asyncio.TimeoutError.
NetEvents ==
    [ev : {"response"}, status : HttpStatuses, total : 0..MaxTotal]
    \cup [ev : {"ClientError", "TimeoutError"}, status : {0}, total : {0}]

\* send_request: the response object for a 200, None otherwise.
send_request(net) ==
    IF net.status = 200 THEN "res" ELSE None

\* fetch: awaits send_request and then res.text(); only aiohttp.ClientError is
\* caught.  With res = None the attribute access None.text raises AttributeError.
fetch_f1(net) ==
    IF net.ev = "ClientError" THEN Returned(None, 0)
    ELSE IF net.ev = "TimeoutError" THEN Raised("TimeoutError")
    ELSE IF send_request(net) = None THEN Raised("AttributeError")
    ELSE Returned("text", net.total)

(***************************************************************************)
(* f1/api.py: the endpoint functions.                                      *)
(***************************************************************************)

\* get_soup: None for a None response, the parsed document otherwise.
get_soup(res) ==
    IF res.kind = "raise" THEN res
    ELSE IF res.val = None THEN Returned(None, 0)
    ELSE Returned("soup", res.total)

Endpoints == {
    "get_driver_standings", "get_team_standings", "get_all_drivers_and_teams",
    "get_race_schedule", "get_next_race", "get_race_results", "get_all_laps",
    "get_qualifying_results", "get_pitstops", "get_driver_championship_wins",
    "get_driver_wins", "get_driver_poles", "get_driver_seasons", "get_driver_teams" }

\* The endpoints whose last statement is `return MissingDataError()`.
ReturnsTheError == {"get_driver_wins", "get_driver_poles"}

\* The statement an endpoint reaches when `if soup:` is false.
NoSoup(fn) ==
    IF fn \in ReturnsTheError
    THEN Returned("MissingDataError", 0)
    ELSE Raised("MissingDataError")

\* The body of an endpoint after `soup = await get_soup(url)`.
Endpoint(fn, soup) ==
    IF soup.kind = "raise" THEN soup
    ELSE IF soup.val = None THEN NoSoup(fn)
    ELSE Returned("data", soup.total)

\* The sub-queries of get_driver_career, in the order of the gather call.
SubQueries == {"wins", "poles", "seasons", "teams", "champs"}

SubFn(q) ==
    CASE q = "wins" -> "get_driver_wins"
      [] q = "poles" -> "get_driver_poles"
      [] q = "seasons" -> "get_driver_seasons"
      [] q = "teams" -> "get_driver_teams"
      [] q = "champs" -> "get_driver_championship_wins"

IdleSub == [pc |-> "idle", fetched |-> NoOutcome, out |-> NoOutcome]
NoNet == [ev |-> "", status |-> 0, total |-> 0]
IdleCall == [fn |-> "", pc |-> "idle", net |-> NoNet, fetched |-> NoOutcome, out |-> NoOutcome]
NoGather == [state |-> "none", exc |-> ""]

\* Subscripting what a sub-query returned: x['total'] on the exception
\* instance raises TypeError.
IsDict(o) == o.kind = "return" /\ o.val = "data"

\* The 'data' list of the dict a sub-query returned: the documents of the
\* model list as many entries as their MRData total reports.  An entry of
\* get_driver_championship_wins holds its 'Season', one of get_driver_seasons
\* its 'year', and one of get_driver_teams is the constructor's name.
FirstSeason == 2005
TeamNames == <<"Minardi", "Renault", "McLaren", "Ferrari">>
DataOf(q, o) ==
    CASE q = "champs" -> [i \in 1..o.total |-> [Season |-> FirstSeason + i, Team |-> TeamNames[2]]]
      [] q = "seasons" -> [i \in 1..o.total |-> [year |-> FirstSeason - 5 + i, url |-> "url"]]
      [] q = "teams" -> [i \in 1..o.total |-> TeamNames[i]]
      [] OTHER -> [i \in 1..o.total |-> [Race |-> i]]

\* The summary with the totals of wins and poles in each other's place.
CareerSummaryCrossed(s) ==
    IF \E q \in SubQueries : ~IsDict(s[q].out)
    THEN Raised("TypeError")
    ELSE [kind |-> "return", val |-> "summary",
          total |-> 0,
          Wins |-> s["poles"].out.total,
          Poles |-> s["wins"].out.total,
          Championships |-> s["champs"].out.total,
          ChampionshipYears |->
              [i \in DOMAIN DataOf("champs", s["champs"].out) |->
                  DataOf("champs", s["champs"].out)[i].Season],
          Seasons |-> s["seasons"].out.total,
          SeasonYears |->
              [i \in DOMAIN DataOf("seasons", s["seasons"].out) |->
                  DataOf("seasons", s["seasons"].out)[i].year],
          Teams |-> s["teams"].out.total,
          TeamNames |-> DataOf("teams", s["teams"].out)]

\* Lines 949-968: the summary built from the five results.
CareerSummary(s) ==
    IF \E q \in SubQueries : ~IsDict(s[q].out)
    THEN Raised("TypeError")
    ELSE [kind |-> "return", val |-> "summary",
          total |-> 0,
          Wins |-> s["wins"].out.total,
          Poles |-> s["poles"].out.total,
          Championships |-> s["champs"].out.total,
          ChampionshipYears |->
              [i \in DOMAIN DataOf("champs", s["champs"].out) |->
                  DataOf("champs", s["champs"].out)[i].Season],
          Seasons |-> s["seasons"].out.total,
          SeasonYears |->
              [i \in DOMAIN DataOf("seasons", s["seasons"].out) |->
                  DataOf("seasons", s["seasons"].out)[i].year],
          Teams |-> s["teams"].out.total,
          TeamNames |-> DataOf("teams", s["teams"].out)]

\* An endpoint is awaited on its own.
CallEndpoint(fn) ==
    /\ call.pc = "idle"
    /\ call' = [IdleCall EXCEPT !.fn = fn, !.pc = "get_soup"]
    /\ UNCHANGED <<sub, gather>>

\* The request of a lone endpoint completes and the endpoint runs on.
\* get_pitstops then awaits get_race_results(rnd, season, winner_only=True).
EndpointResponse(net) ==
    /\ call.pc = "get_soup"
    /\ call.fn \in Endpoints
    /\ LET res == fetch_f1(net)
           out == Endpoint(call.fn, get_soup(res))
       IN IF call.fn = "get_pitstops" /\ IsDict(out)
          THEN call' = [call EXCEPT !.pc = "get_race_results", !.net = net,
                                    !.fetched = res]
          ELSE call' = [call EXCEPT !.pc = "done", !.net = net, !.fetched = res,
                                    !.out = out]
    /\ UNCHANGED <<sub, gather>>

\* get_pitstops, lines 693-715: the nested get_race_results completes.
PitstopsResultsResponse(net) ==
    /\ call.pc = "get_race_results"
    /\ LET res == fetch_f1(net)
           results == Endpoint("get_race_results", get_soup(res))
       IN call' = [call EXCEPT !.pc = "done", !.net = net, !.fetched = res,
                               !.out = IF IsDict(results)
                                       THEN Returned("data", call.fetched.total)
                                       ELSE results]
    /\ UNCHANGED <<sub, gather>>

\* get_driver_career, lines 938-948: create_task and gather start the five
\* sub-queries, each of which runs up to its network request.
CallCareer ==
    /\ call.pc = "idle"
    /\ call' = [IdleCall EXCEPT !.fn = "get_driver_career", !.pc = "gather"]
    /\ sub' = [q \in SubQueries |-> [IdleSub EXCEPT !.pc = "fetching"]]
    /\ gather' = [state |-> "pending", exc |-> ""]

\* asyncio.gather's done callback (return_exceptions=False): the first
\* exception is set on the outer future at once, and the other children are
\* left running; the result is set when the last child finishes.
GatherDone(g, s, o) ==
    IF g.state # "pending" THEN g
    ELSE IF o.kind = "raise" THEN [state |-> "exception", exc |-> o.val]
    ELSE IF \A q \in SubQueries : s[q].pc = "done" THEN [state |-> "result", exc |-> ""]
    ELSE g

\* The request of a sub-query completes and the sub-query runs to its end.
SubResponse(q, net) ==
    /\ sub[q].pc = "fetching"
    /\ LET res == fetch_f1(net)
           out == Endpoint(SubFn(q), get_soup(res))
           s == [sub EXCEPT ![q] = [pc |-> "done", fetched |-> res, out |-> out]]
       IN /\ sub' = s
          /\ gather' = GatherDone(gather, s, out)
    /\ UNCHANGED call

\* get_driver_career resumes from `await asyncio.gather(...)`.
CareerResume ==
    /\ call.pc = "gather"
    /\ gather.state \in {"exception", "result"}
    /\ call' = [call EXCEPT !.pc = "done",
                            !.out = IF gather.state = "exception"
                                    THEN Raised(gather.exc)
                                    ELSE CareerSummary(sub)]
    /\ UNCHANGED <<sub, gather>>

(***************************************************************************)
(* f1/api/fetch.py: the cached fetch.                                      *)
(***************************************************************************)

SESSION_TIMEOUT == 120

\* URLs are sequences of tokens; BASE stands for BASE_URL without its scheme.
BASE == "ergast.com/api/f1"
UrlDriver == <<BASE, "/", "drivers", "/", "alonso">>
UrlNext == <<BASE, "/", "current", "/", "next">>
Urls == {UrlDriver, UrlNext}

WEEK == 604800
HOUR == 3600
TEN_MINUTES == 600
TWO_DAYS == 172800

\* cache = SQLiteBackend(expire_after=timedelta(days=2), urls_expire_after={...}):
\* the patterns in the order of the dict literal.
urls_expire_after == <<
    [pattern |-> <<BASE, "/", "drivers">>, expire_after |-> WEEK],
    [pattern |-> <<BASE, "/", "drivers", "/", "*">>, expire_after |-> HOUR],
    [pattern |-> <<BASE, "/", "current", "/", "last", "/", "*">>, expire_after |-> TEN_MINUTES],
    [pattern |-> <<BASE, "/", "current", "/", "next">>, expire_after |-> TEN_MINUTES] >>

expire_after == TWO_DAYS

\* str.rstrip('*') on a pattern.
RECURSIVE RStripStar(_)
RStripStar(p) ==
    IF p # <<>> /\ p[Len(p)] = "*" THEN RStripStar(SubSeq(p, 1, Len(p) - 1)) ELSE p

\* fnmatch: "*" matches any run of tokens, every other token matches itself.
RECURSIVE fnmatch(_, _)
fnmatch(s, p) ==
    IF p = <<>> THEN s = <<>>
    ELSE IF Head(p) = "*"
         THEN fnmatch(s, Tail(p)) \/ (s # <<>> /\ fnmatch(Tail(s), p))
         ELSE s # <<>> /\ Head(s) = Head(p) /\ fnmatch(Tail(s), Tail(p))

\* The backend's URL match: the pattern is a glob to which a recursive
\* wildcard is appended.
url_match(url, pattern) == fnmatch(url, RStripStar(pattern) \o <<"*", "*">>)

\* The expiry the backend gives a response: that of the first pattern, in
\* dict order, that matches its URL, else the default expire_after.
RECURSIVE FirstMatch(_, _)
FirstMatch(url, patterns) ==
    IF patterns = <<>> THEN expire_after
    ELSE IF url_match(url, Head(patterns).pattern) THEN Head(patterns).expire_after
    ELSE FirstMatch(url, Tail(patterns))

get_url_expiration(url) == FirstMatch(url, urls_expire_after)

\* A backend that keys every response alike.
CacheKeyHost(url) == UrlNext

\* The backend keys a response by its request URL.
CacheKey(url) == url

\* The content types a response declares: XML as the Ergast API sends it, and
\* one that is neither XML nor JSON (an error page, a plain-text body).
ContentTypes == {"application/xml", "text/html"}

\* What fetch hands to its caller: a decoded payload of the response to url,
\* None, or an exception that escapes.
Payload(form, url) == [kind |-> "return", val |-> form, url |-> url]
ReturnedNone == [kind |-> "return", val |-> None, url |-> <<>>]
Escaped(e) == [kind |-> "raise", val |-> e, url |-> <<>>]
NotReturned == [kind |-> "none", val |-> "", url |-> <<>>]

_is_xml(res) == res.content_type = "application/xml"
_is_json(res) == res.content_type = "application/json"

\* _send_request, lines 45-56: None unless the status is 200, else the body
\* decoded as the declared content type says.
_send_request(res) ==
    IF res.status # 200 THEN ReturnedNone
    ELSE IF _is_xml(res) THEN Payload("bytes", res.url)
    ELSE IF _is_json(res) THEN Payload("json", res.url)
    ELSE Payload("text", res.url)

\* A cache entry: the stored response, the expiry it was given and the
\* seconds left until it expires.  The backend stores 200 responses only.
NoEntry == [url |-> <<>>, content_type |-> "", expire_after |-> 0, left |-> 0]
Entry(res, ttl) ==
    [url |-> res.url, content_type |-> res.content_type, expire_after |-> ttl, left |-> ttl]

\* An entry is expired once the clock is past its expiry time.
is_expired(e) == e.left < 0

\* The slots in which fetch() coroutines wait for the network.
Fetchers == {1, 2}

\* Bounds on the number of fetch calls and disable-cache commands of a run.
MaxCalls == 2
MaxDisables == 1

IdleReq == [pc |-> "idle", url |-> <<>>, bypass |-> FALSE, left |-> 0]

\* The fetch call that completed last: its URL, whether it ran inside
\* session.disabled(), what the session met and what fetch handed back.
Completed(u, b, ev, status, out) ==
    [url |-> u, bypass |-> b, net |-> [ev |-> ev, status |-> status], out |-> out]
NoFetch == Completed(<<>>, FALSE, "", 0, NotReturned)

\* fetch(url), lines 61-69, up to the first suspension: with use_cache the
\* session answers from an unexpired entry, else the request goes out; inside
\* session.disabled() the cache is neither read nor written.
FetchCall(f, u) ==
    /\ req[f].pc = "idle"
    /\ \A g \in Fetchers : req[g].pc = "idle" => f <= g
    /\ ncalls < MaxCalls
    /\ ncalls' = ncalls + 1
    /\ LET e == cache[CacheKey(u)]
       IN IF use_cache /\ e # NoEntry /\ ~is_expired(e)
          THEN /\ last' = Completed(u, FALSE, "cache", 200,
                              _send_request([url |-> e.url, status |-> 200,
                                             content_type |-> e.content_type]))
               /\ UNCHANGED <<req, cache>>
          ELSE /\ req' = [req EXCEPT ![f] =
                    [pc |-> "inflight", url |-> u, bypass |-> ~use_cache,
                     left |-> SESSION_TIMEOUT]]
               /\ cache' = IF use_cache
                           THEN [cache EXCEPT ![CacheKey(u)] = NoEntry]
                           ELSE cache
               /\ UNCHANGED last
    /\ UNCHANGED <<use_cache, ff1_cache_enabled, timers, ndisable>>

\* The server answers a pending request: _send_request runs on the response
\* and the session stores a 200 response unless the cache is disabled for it.
\* (The content type of an error response is never read: text/html is taken.)
FetchResponse(f, status, ctype) ==
    /\ req[f].pc = "inflight"
    /\ status # 200 => ctype = "text/html"
    /\ LET res == [url |-> req[f].url, status |-> status, content_type |-> ctype]
       IN /\ last' = Completed(req[f].url, req[f].bypass, "response", status,
                               _send_request(res))
          /\ cache' = IF ~req[f].bypass /\ status = 200
                      THEN [cache EXCEPT ![CacheKey(res.url)] =
                                Entry(res, get_url_expiration(res.url))]
                      ELSE cache
    /\ req' = [req EXCEPT ![f] = IdleReq]
    /\ UNCHANGED <<use_cache, ff1_cache_enabled, timers, ncalls, ndisable>>

\* Lines 72-74: the transport fails with an aiohttp.ClientError.
FetchClientError(f) ==
    /\ req[f].pc = "inflight"
    /\ last' = Completed(req[f].url, req[f].bypass, "ClientError", 0, ReturnedNone)
    /\ req' = [req EXCEPT ![f] = IdleReq]
    /\ UNCHANGED <<use_cache, ff1_cache_enabled, cache, timers, ncalls, ndisable>>

\* A handler that caught the timeout as it catches aiohttp.ClientError.
OnTimeoutCaught == ReturnedNone

\* What `except aiohttp.ClientError` makes of asyncio.TimeoutError: it is no
\* ClientError, so it escapes fetch.
OnTimeout == Escaped("TimeoutError")

\* ClientTimeout(total=SESSION_TIMEOUT) runs out: aiohttp raises
\* asyncio.TimeoutError in the coroutine awaiting the request.
FetchTimeout(f) ==
    /\ req[f].pc = "inflight"
    /\ req[f].left = 0
    /\ last' = Completed(req[f].url, req[f].bypass, "TimeoutError", 0, OnTimeout)
    /\ req' = [req EXCEPT ![f] = IdleReq]
    /\ UNCHANGED <<use_cache, ff1_cache_enabled, cache, timers, ncalls, ndisable>>

(***************************************************************************)
(* f1/cogs/admin.py: the disable-cache command.                            *)
(***************************************************************************)

DefaultMinutes == 5
Minutes == {1, DefaultMinutes}

RemoveAt(s, i) == SubSeq(s, 1, i - 1) \o SubSeq(s, i + 1, Len(s))

\* The event loop's timer heap: the sleeping tasks ordered by wake-up time.
RECURSIVE Schedule(_, _)
Schedule(s, t) ==
    IF s = <<>> THEN <<t>>
    ELSE IF t < Head(s) THEN <<t>> \o s
    ELSE <<Head(s)>> \o Schedule(Tail(s), t)

\* Admin.disable_cache: clears both flags and creates the _enable_cache task,
\* which starts by sleeping minutes * 60 seconds.
DisableCacheBody(minutes) ==
    /\ ndisable' = ndisable + 1
    /\ use_cache' = FALSE
    /\ ff1_cache_enabled' = FALSE
    /\ timers' = Schedule(timers, minutes * 60)
    /\ UNCHANGED <<cache, req, last, ncalls>>

disable_cache(minutes) ==
    /\ ndisable < MaxDisables
    /\ DisableCacheBody(minutes)

\* An _enable_cache that leaves the flag as it finds it.
EnabledValueKept == use_cache

\* What _enable_cache assigns to fetch.use_cache after its sleep.
EnabledValue == TRUE

\* Admin._enable_cache after its sleep: sets both flags again.
_enable_cache(i) ==
    /\ i \in DOMAIN timers
    /\ timers[i] = 0
    /\ use_cache' = EnabledValue
    /\ ff1_cache_enabled' = TRUE
    /\ timers' = RemoveAt(timers, i)
    /\ UNCHANGED <<cache, req, last, ncalls, ndisable>>

(***************************************************************************)
(* The clock.  Seconds left are kept instead of absolute times; time moves *)
(* to the next instant at which something can change and never past a      *)
(* pending timer of the event loop.                                        *)
(***************************************************************************)

Inflight == {f \in Fetchers : req[f].pc = "inflight"}
Stored == {k \in Urls : cache[k] # NoEntry /\ ~is_expired(cache[k])}

Deadlines ==
    {timers[i] : i \in DOMAIN timers}
    \cup {req[f].left : f \in Inflight}
    \cup {cache[k].left + 1 : k \in Stored}

Tick(d) ==
    /\ d \in Deadlines
    /\ d > 0
    /\ \A e \in Deadlines : e >= d
    /\ timers' = [i \in DOMAIN timers |-> timers[i] - d]
    /\ req' = [f \in Fetchers |->
                 IF f \in Inflight THEN [req[f] EXCEPT !.left = @ - d] ELSE req[f]]
    /\ cache' = [k \in Urls |->
                   IF k \in Stored
                   THEN [cache[k] EXCEPT !.left = IF @ - d < 0 THEN 0 - 1 ELSE @ - d]
                   ELSE cache[k]]
    /\ UNCHANGED <<use_cache, ff1_cache_enabled, last, ncalls, ndisable>>

(***************************************************************************)
(* f1/utils.py find_driver and f1/api.py get_driver_info.                  *)
(***************************************************************************)

\* A key a driver dict does not hold.
Absent == "<absent>"

\* dict.get(key, default)
Get(d, key, default) == IF d[key] = Absent THEN default ELSE d[key]

\* The strings of the model and str.lower() on them.
IdVals == {"hamilton", "ham", "44"}
CodeVals == {"HAM", "44"}
NumVals == {"44", "14"}
Names == {<<"Fernando", "Alonso">>, <<"Lewis", "Hamilton">>}
Queries == IdVals \cup CodeVals \cup NumVals \cup {"Hamilton", "TEST", "Fernando", "Alon"}

lower(s) ==
    CASE s = "HAM" -> "ham"
      [] s = "Hamilton" -> "hamilton"
      [] s = "TEST" -> "test"
      [] s = "Fernando" -> "fernando"
      [] s = "Alon" -> "alon"
      [] s = "ALO" -> "alo"
      [] OTHER -> s

DriverRecords ==
    {[driverId |-> i, code |-> c, permanentNumber |-> p, givenName |-> n[1], familyName |-> n[2]] :
        i \in IdVals, c \in CodeVals \cup {Absent}, p \in NumVals \cup {Absent}, n \in Names}

\* Largest driver list of the model.
MaxDrivers == 2

\* Driver lists as the Ergast listing gives them: no driverId twice.
DriverSets ==
    {ds \in UNION {[1..n -> DriverRecords] : n \in 0..MaxDrivers} :
        \A i, j \in DOMAIN ds : ds[i].driverId = ds[j].driverId => i = j}

Found(d) == [kind |-> "return", driver |-> d, exc |-> ""]
NoDriver ==
    [driverId |-> Absent, code |-> Absent, permanentNumber |-> Absent,
     givenName |-> Absent, familyName |-> Absent]
NotFound == [kind |-> "raise", driver |-> NoDriver, exc |-> "DriverNotFoundError"]

\* Lines 122-127 without the code branch.
MatchNoCode(d, id) ==
    \/ lower(Get(d, "driverId", "")) = lower(id)
    \/ Get(d, "permanentNumber", "") = id

\* Lines 122-127: the if/elif chain on one driver d (str(id) is id).
Match(d, id) ==
    \/ lower(Get(d, "driverId", "")) = lower(id)
    \/ lower(Get(d, "code", "")) = lower(id)
    \/ Get(d, "permanentNumber", "") = id

\* A search by criterion first: all ids, then all codes, then all numbers.
RECURSIVE FirstWith(_, _, _)
FirstWith(id, drivers, crit) ==
    IF drivers = <<>> THEN NotFound
    ELSE IF (crit = "driverId" /\ lower(Get(Head(drivers), "driverId", "")) = lower(id))
            \/ (crit = "code" /\ lower(Get(Head(drivers), "code", "")) = lower(id))
            \/ (crit = "permanentNumber" /\ Get(Head(drivers), "permanentNumber", "") = id)
         THEN Found(Head(drivers))
         ELSE FirstWith(id, Tail(drivers), crit)

find_driver_by_priority(id, drivers) ==
    IF FirstWith(id, drivers, "driverId") # NotFound THEN FirstWith(id, drivers, "driverId")
    ELSE IF FirstWith(id, drivers, "code") # NotFound THEN FirstWith(id, drivers, "code")
    ELSE FirstWith(id, drivers, "permanentNumber")

\* find_driver, lines 121-130: the first driver of the list that matches.
RECURSIVE find_driver(_, _)
find_driver(id, drivers) ==
    IF drivers = <<>> THEN NotFound
    ELSE IF Match(Head(drivers), id) THEN Found(Head(drivers))
    ELSE find_driver(id, Tail(drivers))

NoInfo == [kind |-> "none", id |-> "", code |-> "", number |-> "", exc |-> ""]

\* get_driver_info, lines 108-119: the fields of the result that identify the
\* driver; DriverNotFoundError propagates.
get_driver_info(driver_id) ==
    LET driver == find_driver(driver_id, DRIVERS)
    IN IF driver.kind = "raise"
       THEN [kind |-> "raise", id |-> "", code |-> "", number |-> "", exc |-> driver.exc]
       ELSE [kind |-> "return",
             id |-> driver.driver.driverId,
             code |-> Get(driver.driver, "code", None),
             number |-> Get(driver.driver, "permanentNumber", None),
             exc |-> ""]

NoLookup == [id |-> "", found |-> NotFound, info |-> NoInfo]

\* A command resolves an identifier: find_driver on the loaded list, and
\* get_driver_info on top of it.
GetDriverInfo(x) ==
    /\ lookup' = [id |-> x, found |-> find_driver(x, DRIVERS), info |-> get_driver_info(x)]
    /\ UNCHANGED DRIVERS

(***************************************************************************)
(* f1/utils.py: rank_best_lap_times and filter_times.                      *)
(***************************************************************************)

\* The entries of get_best_laps()['data']: 'Rank' is an int, and two drivers
\* can hold the same rank value.
LapEntries == [Rank : 1..2, Driver : {"HAM", "ALO"}]

\* Longest list of lap times of the model.
MaxTimes == 6

LapLists == UNION {[1..n -> LapEntries] : n \in 0..MaxTimes}

Ret(v) == [kind |-> "return", val |-> v, exc |-> ""]
Exc(e) == [kind |-> "raise", val |-> <<>>, exc |-> e]
NotCalled == [kind |-> "none", val |-> <<>>, exc |-> ""]

\* An insertion that puts x in front of the entries with an equal key.
RECURSIVE InsertBeforeEqual(_, _, _)
InsertBeforeEqual(x, s, key) ==
    IF s = <<>> THEN <<x>>
    ELSE IF x[key] <= Head(s)[key] THEN <<x>> \o s
    ELSE <<Head(s)>> \o InsertBeforeEqual(x, Tail(s), key)

\* sorted() is stable: an entry goes behind the entries already placed whose
\* key is not greater than its own.
RECURSIVE Insert(_, _, _)
Insert(x, s, key) ==
    IF s = <<>> THEN <<x>>
    ELSE IF x[key] < Head(s)[key] THEN <<x>> \o s
    ELSE <<Head(s)>> \o Insert(x, Tail(s), key)

\* sorted(iterable, key=itemgetter(key)): a new list, the entries taken in
\* their order.
RECURSIVE sorted(_, _)
sorted(s, key) ==
    IF s = <<>> THEN <<>>
    ELSE Insert(s[Len(s)], sorted(SubSeq(s, 1, Len(s) - 1), key), key)

\* rank_best_lap_times, lines 133-136.
rank_best_lap_times(t) == Ret(sorted(t.data, "Rank"))

\* An indexing that counts from one and knows no negative index.
IndexFromOne(s, i) ==
    IF i \in 1..Len(s) THEN Ret(<<s[i]>>) ELSE Exc("IndexError")

\* [s[i]] on a Python list: the index counts from zero, a negative index
\* counts from the end, and an index outside the list raises IndexError.
Index(s, i) ==
    LET k == IF i < 0 THEN i + Len(s) ELSE i
    IN IF k \in 0..(Len(s) - 1) THEN Ret(<<s[k + 1]>>) ELSE Exc("IndexError")

\* The bound of a slice: a negative bound counts from the end, and a bound
\* outside the list is clipped to it.
Clip(s, i) ==
    IF i < 0
    THEN (IF i + Len(s) < 0 THEN 0 ELSE i + Len(s))
    ELSE (IF i > Len(s) THEN Len(s) ELSE i)

\* A slice s[:j] that takes one entry more.
SliceToInclusive(s, j) == SubSeq(s, 1, Clip(s, j + 1))

\* s[:j] and s[i:] on a Python list.
SliceTo(s, j) == SubSeq(s, 1, Clip(s, j))
SliceFrom(s, i) == SubSeq(s, Clip(s, i) + 1, Len(s))

Filters == {"slowest", "fastest", "top", "bottom", "all"}

\* filter_times, lines 198-211.
filter_times(sorted_times, filter) ==
    IF filter = "slowest" THEN Index(sorted_times, Len(sorted_times) - 1)
    ELSE IF filter = "fastest" THEN Index(sorted_times, 0)
    ELSE IF filter = "top" THEN Ret(SliceTo(sorted_times, 5))
    ELSE IF filter = "bottom" THEN Ret(SliceFrom(sorted_times, Len(sorted_times) - 5))
    ELSE Ret(sorted_times)

NoFilter == [filter |-> "", out |-> NotCalled]

\* A command ranks the best laps.
RankBestLapTimes ==
    /\ ranked = NotCalled
    /\ ranked' = rank_best_lap_times(timings)
    /\ UNCHANGED <<timings, given, filtered>>

\* A command filters the ranking.
FilterTimes(f) ==
    /\ ranked.kind = "return"
    /\ filtered' = [filter |-> f, out |-> filter_times(ranked.val, f)]
    /\ UNCHANGED <<timings, given, ranked>>

(***************************************************************************)
(* f1/api.py: what the endpoints read from a response document.            *)
(*                                                                         *)
(* A document is a tree of elements as BeautifulSoup (lxml) builds it: tag *)
(* names in lower case, attributes, text and child elements in document    *)
(* order.  Attribute values are strings of characters.  The parts of a     *)
(* document that the properties below do not concern (driver, constructor, *)
(* grid, laps, race name and date) are present and well formed and are     *)
(* left out of the tree.                                                   *)
(***************************************************************************)

AttrNames == {"position", "points", "wins", "rank", "season", "round"}
NoAttrs == [a \in AttrNames |-> <<>>]
NoText == "<no text>"

El(tag, attrs, kids) == [tag |-> tag, attrs |-> attrs, text |-> NoText, kids |-> kids]
Txt(tag, text) == [tag |-> tag, attrs |-> NoAttrs, text |-> text, kids |-> <<>>]
NoNode == [tag |-> "", attrs |-> NoAttrs, text |-> NoText, kids |-> <<>>]

\* A value or the exception an expression raised.
Val(v) == [err |-> "", val |-> v]
Err(e) == [err |-> e, val |-> None]

\* tag.name / tag.find(name): the first descendant with that tag name in
\* document order, None (NoNode) when there is none.
RECURSIVE Find(_, _)
Find(kids, name) ==
    IF kids = <<>> THEN NoNode
    ELSE IF Head(kids).tag = name THEN Head(kids)
    ELSE IF Find(Head(kids).kids, name) # NoNode THEN Find(Head(kids).kids, name)
    ELSE Find(Tail(kids), name)

\* tag.find_all(name): every descendant with that tag name, in document order.
RECURSIVE FindAll(_, _)
FindAll(kids, name) ==
    IF kids = <<>> THEN <<>>
    ELSE (IF Head(kids).tag = name THEN <<Head(kids)>> ELSE <<>>)
         \o FindAll(Head(kids).kids, name)
         \o FindAll(Tail(kids), name)

\* tag.string: the text of a tag whose only child is a string, that of its
\* only child tag, else None; on None the attribute access raises.
RECURSIVE string(_)
string(node) ==
    IF node = NoNode THEN Err("AttributeError")
    ELSE IF node.kids = <<>> THEN Val(IF node.text = NoText THEN None ELSE node.text)
    ELSE IF Len(node.kids) = 1 /\ node.text = NoText THEN string(node.kids[1])
    ELSE Val(None)

\* x.string read without the test for None.
StringUnchecked(node) == string(node)

\* `x.string if x is not None else None`
StringOrNone(node) == IF node # NoNode THEN string(node) ELSE Val(None)

\* tag[name]: the attribute value, KeyError when the tag has no such attribute.
Attr(node, name) ==
    IF node = NoNode THEN Err("TypeError")
    ELSE IF node.attrs[name] = <<>> THEN Err("KeyError")
    ELSE Val(node.attrs[name])

DigitChars == {"0", "1", "2", "3", "4", "5", "6", "7", "8", "9"}
DigitVal(c) ==
    CASE c = "0" -> 0 [] c = "1" -> 1 [] c = "2" -> 2 [] c = "3" -> 3 [] c = "4" -> 4
      [] c = "5" -> 5 [] c = "6" -> 6 [] c = "7" -> 7 [] c = "8" -> 8 [] c = "9" -> 9

RECURSIVE IntOf(_)
IntOf(str) ==
    IF str = <<>> THEN 0
    ELSE 10 * IntOf(SubSeq(str, 1, Len(str) - 1)) + DigitVal(str[Len(str)])

\* int(s) on a string: its value when s is a string of decimal digits,
\* ValueError otherwise.
int(v) ==
    IF v.err # "" THEN v
    ELSE IF v.val # <<>> /\ \A i \in DOMAIN v.val : v.val[i] \in DigitChars
         THEN Val(IntOf(v.val))
         ELSE Err("ValueError")

\* The first exception among the values, "" when none raised.
RECURSIVE FirstErr(_)
FirstErr(vs) ==
    IF vs = <<>> THEN ""
    ELSE IF Head(vs).err # "" THEN Head(vs).err
    ELSE FirstErr(Tail(vs))

\* What an endpoint hands back: its dict, or the exception that ended it.
Dict(season, round, data, tms) ==
    [kind |-> "return", exc |-> "", season |-> season, round |-> round,
     data |-> data, timings |-> tms]
Failed(e) ==
    [kind |-> "raise", exc |-> e, season |-> <<>>, round |-> <<>>,
     data |-> <<>>, timings |-> <<>>]
NotParsed ==
    [kind |-> "none", exc |-> "", season |-> <<>>, round |-> <<>>,
     data |-> <<>>, timings |-> <<>>]

\* The entries built in a loop over elements: the list of the entries, or
\* the first exception raised while building one.
Collect(entries, season, round, tms) ==
    IF FirstErr(entries) # "" THEN Failed(FirstErr(entries))
    ELSE Dict(season, round, [i \in DOMAIN entries |-> entries[i].val], tms)

\* get_driver_standings, lines 155-170.
StandingEntry(standing) ==
    LET pos == int(Attr(standing, "position"))
        points == int(Attr(standing, "points"))
        wins == int(Attr(standing, "wins"))
        e == FirstErr(<<pos, points, wins>>)
    IN IF e # "" THEN Err(e)
       ELSE Val([Pos |-> pos.val, Points |-> points.val, Wins |-> wins.val])

get_driver_standings(doc) ==
    LET standings == Find(doc.kids, "standingslist")
        season == Attr(standings, "season")
        round == Attr(standings, "round")
        all == FindAll(standings.kids, "driverstanding")
    IN IF FirstErr(<<season, round>>) # "" THEN Failed(FirstErr(<<season, round>>))
       ELSE Collect([i \in DOMAIN all |-> StandingEntry(all[i])], season.val, round.val, <<>>)

\* get_race_results, lines 438-462: the entry appended to res['data'] (it has
\* no 'Time' key) and, if the result has a FastestLap, the one appended to
\* res['timings'].
ResultRow(result) ==
    LET fastest_lap == Find(result.kids, "fastestlap")
        pos == int(Attr(result, "position"))
        status == string(Find(result.kids, "status"))
        points == int(Attr(result, "points"))
        rank == IF fastest_lap # NoNode THEN int(Attr(fastest_lap, "rank")) ELSE Val(0)
        time == IF fastest_lap # NoNode THEN string(Find(fastest_lap.kids, "time")) ELSE Val(None)
        e == FirstErr(<<pos, status, points, rank, time>>)
    IN IF e # "" THEN Err(e)
       ELSE Val([entry |-> [Pos |-> pos.val, Status |-> status.val, Points |-> points.val,
                            Time |-> Absent],
                 timing |-> IF fastest_lap # NoNode
                            THEN <<[Rank |-> rank.val, Time |-> time.val]>>
                            ELSE <<>>])

RECURSIVE Timings(_)
Timings(rows) ==
    IF rows = <<>> THEN <<>> ELSE Head(rows).val.timing \o Timings(Tail(rows))

get_race_results(doc) ==
    LET race == Find(doc.kids, "race")
        race_results == FindAll(Find(race.kids, "resultslist").kids, "result")
        season == Attr(race, "season")
        round == Attr(race, "round")
        rows == [i \in DOMAIN race_results |-> ResultRow(race_results[i])]
    IN IF FirstErr(<<season, round>>) # "" THEN Failed(FirstErr(<<season, round>>))
       ELSE IF FirstErr(rows) # "" THEN Failed(FirstErr(rows))
       ELSE Dict(season.val, round.val, [i \in DOMAIN rows |-> rows[i].val.entry], Timings(rows))

\* get_driver_wins, lines 797-815: 'Time' is race_result.time.string.
WinEntry(race) ==
    LET race_result == Find(Find(race.kids, "resultslist").kids, "result")
        time == string(Find(race_result.kids, "time"))
    IN IF time.err # "" THEN time ELSE Val([Time |-> time.val])

get_driver_wins(doc) ==
    LET races == FindAll(Find(doc.kids, "racetable").kids, "race")
    IN Collect([i \in DOMAIN races |-> WinEntry(races[i])], <<>>, <<>>, <<>>)

\* Lines 648-650 and 864-866: Q1, Q2 and Q3 of a qualifying result.
QualifyingEntry(result) ==
    LET q1 == IF result = NoNode THEN Err("AttributeError")
              ELSE StringOrNone(Find(result.kids, "q1"))
        q2 == IF result = NoNode THEN Err("AttributeError")
              ELSE StringOrNone(Find(result.kids, "q2"))
        q3 == IF result = NoNode THEN Err("AttributeError")
              ELSE StringOrNone(Find(result.kids, "q3"))
        e == FirstErr(<<q1, q2, q3>>)
    IN IF e # "" THEN Err(e) ELSE Val([Q1 |-> q1.val, Q2 |-> q2.val, Q3 |-> q3.val])

\* get_qualifying_results, lines 630-653.
get_qualifying_results(doc) ==
    LET race == Find(doc.kids, "race")
        quali_results == FindAll(Find(race.kids, "qualifyinglist").kids, "qualifyingresult")
        season == Attr(race, "season")
        round == Attr(race, "round")
    IN IF FirstErr(<<season, round>>) # "" THEN Failed(FirstErr(<<season, round>>))
       ELSE Collect([i \in DOMAIN quali_results |-> QualifyingEntry(quali_results[i])],
                    season.val, round.val, <<>>)

\* get_driver_poles, lines 851-869.
get_driver_poles(doc) ==
    LET races == FindAll(Find(doc.kids, "racetable").kids, "race")
    IN Collect([i \in DOMAIN races |->
                   QualifyingEntry(Find(Find(races[i].kids, "qualifyinglist").kids,
                                        "qualifyingresult"))],
               <<>>, <<>>, <<>>)

\* The documents of the model.
FinishTime == "1:34:50.616"
LapTime == "1:18.149"
QTime == "1:21.164"
Season == <<"2", "0", "2", "1">>
Round == <<"1", "2">>

\* Most elements of one list in a document.
MaxResults == 2

ListsOf(S) == UNION {[1..n -> S] : n \in 0..MaxResults}

\* A Result: Status, then the finishing Time if the driver was classified
\* with one, then FastestLap (with its own Time) if a lap time was recorded.
ResultElems ==
    {El("result", [NoAttrs EXCEPT !["position"] = <<"1">>, !["points"] = p],
        <<Txt("status", st)>>
        \o (IF t THEN <<Txt("time", FinishTime)>> ELSE <<>>)
        \o (IF f THEN <<El("fastestlap", [NoAttrs EXCEPT !["rank"] = <<"2">>],
                           <<Txt("time", LapTime)>>)>>
                 ELSE <<>>)) :
        p \in {<<"2", "5">>, <<"1", "2", ".", "5">>},
        st \in {"Finished", "Accident"}, t \in BOOLEAN, f \in BOOLEAN}

\* Q1, Q2, Q3: absent, present without text, or present with a time.
QNode(name, q) ==
    CASE q = "absent" -> <<>>
      [] q = "empty" -> <<El(name, NoAttrs, <<>>)>>
      [] q = "text" -> <<Txt(name, QTime)>>

QualifyingElems ==
    {El("qualifyingresult", [NoAttrs EXCEPT !["position"] = <<"1">>],
        QNode("q1", a) \o QNode("q2", b) \o QNode("q3", c)) :
        a \in {"absent", "empty", "text"}, b \in {"absent", "empty", "text"},
        c \in {"absent", "empty", "text"}}

\* Half points were awarded in 2009 and 2021: a points total can be "395.5".
StandingElems ==
    {El("driverstanding",
        [NoAttrs EXCEPT !["position"] = p, !["points"] = pt, !["wins"] = w], <<>>) :
        p \in {<<"1">>, <<"2">>},
        pt \in {<<"4", "0", "8">>, <<"3", "2", "0">>, <<"3", "9", "5", ".", "5">>},
        w \in {<<"1", "1">>, <<"0">>}}

RaceAttrs == [NoAttrs EXCEPT !["season"] = Season, !["round"] = Round]

\* A race with its list of results, and a race table of races with one
\* result each.
RaceDoc(listTag, elems) ==
    El("mrdata", NoAttrs, <<El("race", RaceAttrs, <<El(listTag, NoAttrs, elems)>>)>>)
TableDoc(listTag, elems) ==
    El("mrdata", NoAttrs,
       <<El("racetable", NoAttrs,
            [i \in DOMAIN elems |->
                El("race", RaceAttrs, <<El(listTag, NoAttrs, <<elems[i]>>)>>)])>>)
StandingsDoc(elems) ==
    El("mrdata", NoAttrs, <<El("standingslist", RaceAttrs, elems)>>)

ParsedEndpoints ==
    {"get_driver_standings", "get_race_results", "get_driver_wins",
     "get_qualifying_results", "get_driver_poles"}

Docs(fn) ==
    CASE fn = "get_driver_standings" -> {StandingsDoc(l) : l \in ListsOf(StandingElems)}
      [] fn = "get_race_results" -> {RaceDoc("resultslist", l) : l \in ListsOf(ResultElems)}
      [] fn = "get_driver_wins" -> {TableDoc("resultslist", l) : l \in ListsOf(ResultElems)}
      [] fn = "get_qualifying_results" ->
            {RaceDoc("qualifyinglist", l) : l \in ListsOf(QualifyingElems)}
      [] fn = "get_driver_poles" ->
            {TableDoc("qualifyinglist", l) : l \in ListsOf(QualifyingElems)}

EndpointBody(fn, doc) ==
    CASE fn = "get_driver_standings" -> get_driver_standings(doc)
      [] fn = "get_race_results" -> get_race_results(doc)
      [] fn = "get_driver_wins" -> get_driver_wins(doc)
      [] fn = "get_qualifying_results" -> get_qualifying_results(doc)
      [] fn = "get_driver_poles" -> get_driver_poles(doc)

NoParse == [fn |-> "", out |-> NotParsed]

\* An endpoint got its document (`if soup:` holds) and runs to its end.
ParseResponse(fn) ==
    /\ parsed = NoParse
    /\ \E doc \in Docs(fn) :
          /\ document' = doc
          /\ parsed' = [fn |-> fn, out |-> EndpointBody(fn, doc)]

(***************************************************************************)
(* f1/api/stats.py: statistics derived from a loaded fastf1 session.       *)
(*                                                                         *)
(* A session is its f1_api_support flag and its lap table; a lap is a row  *)
(* with the columns the functions group by.  Lap times, speeds and the     *)
(* quick/accurate selection are fastf1's: every lap of the model is a      *)
(* quick, accurate lap, and a result frame is modelled by the rows it      *)
(* holds.  pandas groupby leaves out the rows whose key holds NaN/None     *)
(* (dropna=True) and orders the groups by key.                             *)
(***************************************************************************)

NaN == "NaN"
\* Stints are numbered from 1; the Stint of a lap without one (NaN).
NoStint == 0

DriverOrder == <<"ALO", "HAM">>
StintOrder == <<1, 2>>
CompoundOrder == <<"HARD", "SOFT">>
Range(s) == {s[i] : i \in DOMAIN s}

LapRows ==
    [Driver : Range(DriverOrder),
     Stint : Range(StintOrder) \cup {NoStint},
     Compound : Range(CompoundOrder) \cup {NaN}]

\* Largest lap table of the model.
MaxLaps == 2

LapTables == UNION {[1..n -> LapRows] : n \in 0..MaxLaps}
Sessions == [f1_api_support : BOOLEAN, laps : LapTables]

TeamOf(d) == IF d = "HAM" THEN "Mercedes" ELSE "Alpine"

\* ergast.get_all_drivers(year, rnd): the drivers of the session's round.
SessionDrivers ==
    <<[driverId |-> "alonso", code |-> "ALO", permanentNumber |-> "14",
       givenName |-> "Fernando", familyName |-> "Alonso"],
      [driverId |-> "hamilton", code |-> "HAM", permanentNumber |-> "44",
       givenName |-> "Lewis", familyName |-> "Hamilton"]>>

\* groupby(["Driver", "Stint", "Compound"]): the group keys in sorted order;
\* a row with NaN in a key column belongs to no group.
GroupKeys ==
    [i \in 1..(Len(DriverOrder) * Len(StintOrder) * Len(CompoundOrder)) |->
        [Driver |-> DriverOrder[((i - 1) \div (Len(StintOrder) * Len(CompoundOrder))) + 1],
         Stint |-> StintOrder[(((i - 1) \div Len(CompoundOrder)) % Len(StintOrder)) + 1],
         Compound |-> CompoundOrder[((i - 1) % Len(CompoundOrder)) + 1]]]

\* .count() of the LapNumber column in one group.
Count(laps, k) == Cardinality({i \in DOMAIN laps : laps[i] = k})

RECURSIVE StintRows(_, _)
StintRows(laps, keys) ==
    IF keys = <<>> THEN <<>>
    ELSE LET k == Head(keys)
             n == Count(laps, k)
         IN (IF n > 0
             THEN <<[Driver |-> k.Driver, Stint |-> k.Stint, Compound |-> k.Compound, Laps |-> n]>>
             ELSE <<>>) \o StintRows(laps, Tail(keys))

\* Lines 261-262 and the like: the check every session function starts with.
SupportCheckSkipped(ses) == TRUE
SupportCheck(ses) == ses.f1_api_support

\* tyre_stints, lines 250-277.
tyre_stints(ses, driver) ==
    IF ~SupportCheck(ses) THEN Exc("MissingDataError")
    ELSE LET stints == StintRows(ses.laps, GroupKeys)
         IN IF driver # None
            THEN LET drv == find_driver(driver, SessionDrivers)
                 IN IF drv.kind = "raise" THEN Exc(drv.exc)
                    ELSE Ret(SelectSeq(stints, LAMBDA r : r.Driver = drv.driver.code))
            ELSE Ret(stints)

\* The number of minisectors, line 303.
NSectors == 24

\* x // (num / den) for non-negative x and positive num, den.
FloorDiv(x, num, den) == (x * den) \div num

RECURSIVE Concat(_)
Concat(ss) == IF ss = <<>> THEN <<>> ELSE Head(ss) \o Concat(Tail(ss))

RECURSIVE MaxOf(_)
MaxOf(s) ==
    IF Len(s) = 1 THEN s[1]
    ELSE LET m == MaxOf(Tail(s)) IN IF s[1] > m THEN s[1] ELSE m

\* minisectors, lines 280-308: laps is the telemetry (distances) of each lap.
minisectors(laps) ==
    LET telemetry == Concat(laps)
        max_dis == MaxOf(telemetry)
    IN Ret([i \in DOMAIN telemetry |->
              [Distance |-> telemetry[i],
               mSector |-> FloorDiv(telemetry[i], max_dis, NSectors) + 1]])

pick_tyre(laps, tyre) == SelectSeq(laps, LAMBDA l : l.Compound = tyre)

\* team_pace, lines 311-335: one row per team.
team_pace(ses) ==
    IF ~SupportCheck(ses) THEN Exc("MissingDataError")
    ELSE Ret({TeamOf(ses.laps[i].Driver) : i \in DOMAIN ses.laps})

\* fastest_laps, lines 338-376: one row per driver with a lap (on the tyre).
fastest_laps(ses, tyre) ==
    IF ~SupportCheck(ses) THEN Exc("MissingDataError")
    ELSE LET laps == IF tyre # None THEN pick_tyre(ses.laps, tyre) ELSE ses.laps
         IN IF Len(laps) = 0 THEN Exc("MissingDataError")
            ELSE Ret({laps[i].Driver : i \in DOMAIN laps})

\* sectors, lines 379-430: one row per driver with a quick lap (on the tyre).
sectors(s, tyre) ==
    IF ~SupportCheck(s) THEN Exc("MissingDataError")
    ELSE LET laps == IF tyre # None THEN pick_tyre(s.laps, tyre) ELSE s.laps
         IN IF Len(laps) = 0 THEN Exc("MissingDataError")
            ELSE Ret({laps[i].Driver : i \in DOMAIN laps})

\* tyre_performance, lines 433-456: one row per compound (and tyre life).
tyre_performance(ses) ==
    IF ~SupportCheck(ses) THEN Exc("MissingDataError")
    ELSE Ret({ses.laps[i].Compound : i \in DOMAIN ses.laps} \ {NaN})

\* Telemetry handed to minisectors: one or two laps of two samples each.  The
\* largest distance is a multiple of 12, for which max_dis / 24 and the floor
\* division are exact in floating point.
Distances == {0, 12, 24}
Traces == [1..2 -> Distances]
TelemetryOf == {ls \in [1..1 -> Traces] \cup [1..2 -> Traces] : MaxOf(Concat(ls)) > 0}

DriverArgs == {None, "HAM", "ALO", "TEST"}
TyreArgs == {None, "SOFT", "HARD"}

NoStat == [fn |-> "", arg |-> None, out |-> NotCalled]

TyreStints(driver) ==
    /\ stat.fn = ""
    /\ stat' = [fn |-> "tyre_stints", arg |-> driver, out |-> tyre_stints(session, driver)]
    /\ UNCHANGED session

Minisectors(laps) ==
    /\ stat.fn = ""
    /\ stat' = [fn |-> "minisectors", arg |-> laps, out |-> minisectors(laps)]
    /\ UNCHANGED session

TeamPace ==
    /\ stat.fn = ""
    /\ stat' = [fn |-> "team_pace", arg |-> None, out |-> team_pace(session)]
    /\ UNCHANGED session

FastestLaps(tyre) ==
    /\ stat.fn = ""
    /\ stat' = [fn |-> "fastest_laps", arg |-> tyre, out |-> fastest_laps(session, tyre)]
    /\ UNCHANGED session

Sectors(tyre) ==
    /\ stat.fn = ""
    /\ stat' = [fn |-> "sectors", arg |-> tyre, out |-> sectors(session, tyre)]
    /\ UNCHANGED session

TyrePerformance ==
    /\ stat.fn = ""
    /\ stat' = [fn |-> "tyre_performance", arg |-> None, out |-> tyre_performance(session)]
    /\ UNCHANGED session

(***************************************************************************)
(* f1/config.py: the Config singleton.                                     *)
(*                                                                         *)
(* The files are the environment's: config.ini can be missing (OSError,   *)
(* answered with sys.exit) or lack the LOGGING, GUILDS or BOT section,    *)
(* and version.txt can be missing.                                         *)
(***************************************************************************)

\* config.ini and version.txt as the process finds them.
FileStates ==
    [config : BOOLEAN,
     sections : SUBSET {"LOGGING", "GUILDS", "BOT"},
     level : {"DEBUG", "INFO"},
     guilds : {<<>>, <<"7">>},
     version : BOOLEAN]

\* _load_config, lines 83-150: the parsed settings, or the exception.
_load_config(fs) ==
    IF ~fs.config THEN Exc("SystemExit")
    ELSE IF "LOGGING" \notin fs.sections THEN Exc("KeyError")
    ELSE Ret([sections |-> fs.sections, level |-> fs.level, guilds |-> fs.guilds])

\* _get_guilds, lines 75-81.
_get_guilds(settings) ==
    IF "GUILDS" \notin settings.sections THEN Exc("NoSectionError")
    ELSE IF Len(settings.guilds) = 0 THEN Ret(None)
    ELSE Ret(<<IntOf(settings.guilds)>>)

\* _setup_bot, lines 60-73.
_setup_bot(settings) ==
    IF "BOT" \notin settings.sections THEN Exc("KeyError")
    ELSE Ret([command_prefix |-> "!f1 "])

\* Largest number of Config() calls of the model.
MaxConfigCalls == 3

Unset == "<unset>"
NoInstance == [id |-> 0, settings |-> Unset, guilds |-> Unset, bot |-> Unset, version |-> Unset]

\* The first exception among the steps, or "" when none raises.
FirstExc(steps) ==
    IF \E i \in DOMAIN steps : steps[i].kind = "raise"
    THEN steps[CHOOSE i \in DOMAIN steps :
                  steps[i].kind = "raise" /\ \A j \in 1..(i - 1) : steps[j].kind # "raise"].exc
    ELSE ""

\* Config.__new__, lines 44-51.  The instance is bound to cls._instance before
\* its attributes are set; a step that raises leaves it bound with the
\* attributes of the steps before it.  settings_loads counts the times the
\* settings file was read, bots_built the commands.Bot objects made.
ConfigNew ==
    /\ ~exited
    /\ Len(config_calls) < MaxConfigCalls
    /\ IF _instance.id = NoInstance.id
       THEN LET loaded == _load_config(files)
                guilds == IF loaded.kind = "return" THEN _get_guilds(loaded.val) ELSE loaded
                bot == IF guilds.kind = "return" THEN _setup_bot(loaded.val) ELSE guilds
                version == IF bot.kind = "raise" THEN bot
                           ELSE IF files.version THEN Ret("version") ELSE Exc("FileNotFoundError")
                exc == FirstExc(<<loaded, guilds, bot, version>>)
                obj == [id |-> allocated + 1,
                        settings |-> IF loaded.kind = "return" THEN loaded.val ELSE Unset,
                        guilds |-> IF guilds.kind = "return" THEN guilds.val ELSE Unset,
                        bot |-> IF bot.kind = "return" THEN bot.val ELSE Unset,
                        version |-> IF version.kind = "return" THEN version.val ELSE Unset]
            IN /\ allocated' = allocated + 1
               /\ _instance' = obj
               /\ settings_loads' = settings_loads + (IF files.config THEN 1 ELSE 0)
               /\ bots_built' = bots_built + (IF bot.kind = "return" THEN 1 ELSE 0)
               /\ exited' = (exc = "SystemExit")
               /\ config_calls' = Append(config_calls,
                                         IF exc = "" THEN [kind |-> "return", val |-> obj.id, exc |-> ""]
                                         ELSE [kind |-> "raise", val |-> 0, exc |-> exc])
       ELSE /\ config_calls' = Append(config_calls, [kind |-> "return", val |-> _instance.id, exc |-> ""])
            /\ UNCHANGED <<_instance, allocated, settings_loads, bots_built, exited>>
    /\ UNCHANGED files

(***************************************************************************)
(* f1/utils.py rank_pitstops on the result of f1/api.py get_pitstops.      *)
(*                                                                         *)
(* get_pitstops stores the duration attribute of a PitStop element as it   *)
(* is, a string: seconds with a fraction ("22.8"), with the minutes in     *)
(* front when the stop took a minute or more ("1:02.3").  Strings are      *)
(* sequences of characters here, compared as Python compares str.          *)
(***************************************************************************)

\* ord(c) of the characters of a duration.
Ord(c) ==
    CASE c = "." -> 46
      [] c = ":" -> 58
      [] OTHER -> 48 + DigitVal(c)

\* a < b on two str values.
RECURSIVE StrLess(_, _)
StrLess(a, b) ==
    IF b = <<>> THEN FALSE
    ELSE IF a = <<>> THEN TRUE
    ELSE IF Head(a) # Head(b) THEN Ord(Head(a)) < Ord(Head(b))
    ELSE StrLess(Tail(a), Tail(b))

\* The duration as a time value, in tenths of a second.
Tenths(d) ==
    LET colon == {i \in DOMAIN d : d[i] = ":"}
        c == IF colon = {} THEN 0 ELSE CHOOSE i \in colon : TRUE
        dot == CHOOSE i \in DOMAIN d : d[i] = "."
    IN 600 * (IF c = 0 THEN 0 ELSE IntOf(SubSeq(d, 1, c - 1)))
       + 10 * IntOf(SubSeq(d, c + 1, dot - 1))
       + IntOf(SubSeq(d, dot + 1, Len(d)))

\* The comparison sorted() makes on the 'Duration' values.
DurationLess(a, b) == StrLess(a, b)

RECURSIVE InsertStop(_, _)
InsertStop(x, s) ==
    IF s = <<>> THEN <<x>>
    ELSE IF DurationLess(x.Duration, Head(s).Duration) THEN <<x>> \o s
    ELSE <<Head(s)>> \o InsertStop(x, Tail(s))

\* sorted(times['data'], key=itemgetter('Duration'))
RECURSIVE sorted_stops(_)
sorted_stops(s) ==
    IF s = <<>> THEN <<>>
    ELSE InsertStop(s[Len(s)], sorted_stops(SubSeq(s, 1, Len(s) - 1)))

\* rank_pitstops, lines 139-142.
rank_pitstops(times) == Ret(sorted_stops(times.data))

Durations ==
    {<<"9", ".", "5">>, <<"2", "2", ".", "8">>, <<"2", "5", ".", "1">>,
     <<"1", ":", "0", "2", ".", "3">>}

\* get_pitstops, lines 704-713: the entries of res['data'].
StopEntries == [Driver : {"HAM", "ALO"}, Duration : Durations]

\* Largest number of pit stops of the model.
MaxStops == 2

StopLists == UNION {[1..n -> StopEntries] : n \in 0..MaxStops}

\* commands.py, line 426: the stops command ranks what get_pitstops returned.
RankPitstops ==
    /\ stops_ranked = NotCalled
    /\ stops_ranked' = rank_pitstops(pitstops)
    /\ UNCHANGED pitstops

(***************************************************************************)
(* f1/commands.py: the DISABLE_DM flag, on_message and the command events. *)
(*                                                                         *)
(* discord.py calls on_message for every message the bot sees.             *)
(* process_commands invokes the command a message names: a message without *)
(* the prefix, or with the prefix alone, invokes nothing and raises no     *)
(* event; a prefixed message naming no known command raises                *)
(* CommandNotFound, which is dispatched to on_command_error; a command     *)
(* that ran dispatches on_command_completion or on_command_error.  A       *)
(* command asks get_target where to answer when it starts, and commands    *)
(* are suspended while they await the statistics service, so that other    *)
(* messages are handled meanwhile.                                         *)
(***************************************************************************)

\* What a message is to process_commands.
MessageKinds == {"command", "unknown", "prefix", "chatter"}

\* Messages: kind and whether the content holds 'no-dm' or 'public'.
Messages == [kind : MessageKinds, flag : BOOLEAN]

\* Largest number of messages of the model.
MaxMessages == 3

\* get_target, lines 35-72, for the message type of a command's answer:
\* the author (DM) or the channel.
get_target(disable_dm, config_dm) ==
    IF disable_dm THEN "channel"
    ELSE IF config_dm THEN "author" ELSE "channel"

\* reset_dm, lines 35-40.
reset_dm(flag) == IF flag THEN FALSE ELSE flag

\* on_message, lines 89-104, up to the point where the invoked command is
\* suspended: the prefix alone is answered with a notice (the elif is then not
\* reached); otherwise a flag in the content sets DISABLE_DM; then
\* process_commands runs.
OnMessage(m) ==
    /\ nmessages < MaxMessages
    /\ nmessages' = nmessages + 1
    /\ LET id == nmessages + 1
           dm == IF m.kind # "prefix" /\ m.flag THEN TRUE ELSE DISABLE_DM
       IN /\ DISABLE_DM' = dm
          /\ CASE m.kind = "command" ->
                    /\ running' = running \cup {[id |-> id, flag |-> m.flag, state |-> "running"]}
                    /\ routed' = Append(routed, [id |-> id, flag |-> m.flag,
                                                 target |-> get_target(dm, TABLE_DM)])
               [] m.kind = "unknown" ->
                    /\ running' = running \cup {[id |-> id, flag |-> m.flag, state |-> "failed"]}
                    /\ UNCHANGED routed
               [] OTHER -> UNCHANGED <<running, routed>>
    /\ UNCHANGED TABLE_DM

\* The command returns: on_command_completion, lines 107-110.
OnCommandCompletion(c) ==
    /\ c \in running
    /\ c.state = "running"
    /\ running' = running \ {c}
    /\ DISABLE_DM' = reset_dm(DISABLE_DM)
    /\ UNCHANGED <<routed, nmessages, TABLE_DM>>

\* The command raises, or no command was found: on_command_error, lines 113-126.
OnCommandError(c) ==
    /\ c \in running
    /\ running' = running \ {c}
    /\ DISABLE_DM' = reset_dm(DISABLE_DM)
    /\ UNCHANGED <<routed, nmessages, TABLE_DM>>

(***************************************************************************)
(* f1/api.py check_status: the connection monitor of the status command.   *)
(*                                                                         *)
(* Time is counted in tenths of a second.  The request is the uncached     *)
(* fetch of f1/fetch.py, which aiohttp ends with asyncio.TimeoutError once *)
(* its total timeout has run out.                                          *)
(***************************************************************************)

\* f1/fetch.py, line 7.
F1_SESSION_TIMEOUT == 30

\* The time from start_time to end_time, in tenths of a second.
Delays == 0..(10 * F1_SESSION_TIMEOUT)

\* timedelta.seconds of a delay below one day: the whole seconds.
seconds(delta) == delta \div 10

\* check_status, lines 48-63, from `delta = end_time - start_time` on.
check_status(res, delta) ==
    IF res.kind = "raise" THEN Exc(res.val)
    ELSE IF res.val = None THEN Ret(0)
    ELSE IF seconds(delta) > 5 THEN Ret(2)
    ELSE IF seconds(delta) > 15 THEN Ret(3)
    ELSE Ret(1)

NoCheck == [pc |-> "idle", net |-> NoNet, delta |-> 0, out |-> NotCalled]

\* The status command calls check_status, which notes start_time and awaits
\* the request.
CallCheckStatus ==
    /\ status_check.pc = "idle"
    /\ status_check' = [NoCheck EXCEPT !.pc = "get_soup"]

\* The request ends after delta and check_status runs to its end.  A timeout
\* ends the request when the whole F1_SESSION_TIMEOUT has passed, anything else
\* before that.
StatusResponse(net, delta) ==
    /\ status_check.pc = "get_soup"
    /\ (net.ev = "TimeoutError") = (delta = 10 * F1_SESSION_TIMEOUT)
    /\ status_check' = [pc |-> "done", net |-> net, delta |-> delta,
                        out |-> check_status(get_soup(fetch_f1(net)), delta)]

(***************************************************************************)
(* f1/cogs/admin.py: disable-cache commands that follow one another.       *)
(*                                                                         *)
(* The commands and the _enable_cache tasks are those of the cached fetch  *)
(* above, without requests in between; period_left is the time left of the *)
(* minutes the latest command announced.                                   *)
(***************************************************************************)

\* Largest number of disable-cache commands of the model.
MaxCommands == 2

\* An administrator sends the command at any time.
AdminDisableCache(minutes) ==
    /\ ndisable < MaxCommands
    /\ DisableCacheBody(minutes)
    /\ period_left' = minutes * 60

\* A sleeping _enable_cache task whose time has come runs on.
AdminEnableCache(i) ==
    /\ _enable_cache(i)
    /\ UNCHANGED period_left

\* The time between two events, in seconds: up to the next timer.
Pauses == {30} \cup {timers[i] : i \in DOMAIN timers}

\* Time passes, never past a pending timer of the event loop.
AdminTick(d) ==
    /\ d \in Pauses
    /\ d > 0
    /\ timers # <<>>
    /\ \A i \in DOMAIN timers : timers[i] >= d
    /\ timers' = [i \in DOMAIN timers |-> timers[i] - d]
    /\ period_left' = IF period_left > d THEN period_left - d ELSE 0
    /\ UNCHANGED <<use_cache, ff1_cache_enabled, cache, req, last, ncalls, ndisable>>

(***************************************************************************)
(* f1/api.py get_all_laps_for_driver and f1/utils.py                       *)
(* filter_laps_by_driver.                                                  *)
(*                                                                         *)
(* The 'data' of get_all_laps is a dict from lap number to the list of the *)
(* timings of that lap, in document order; a dict is the sequence of its   *)
(* items in insertion order here.  A driver who has retired has no timing  *)
(* in the laps that follow.                                                *)
(***************************************************************************)

RaceDrivers == {"alonso", "hamilton"}

\* The timing lists of one lap: every order of every set of drivers.
TimingLists ==
    {ts \in UNION {[1..n -> RaceDrivers] : n \in 0..Cardinality(RaceDrivers)} :
        \A i, j \in DOMAIN ts : ts[i] = ts[j] => i = j}

\* get_all_laps, lines 515-523: the timings of a lap.
LapTimings(ts) == [i \in DOMAIN ts |-> [id |-> ts[i], Pos |-> i, Time |-> LapTime]]

\* Largest number of laps of a race in the model.
MaxRaceLaps == 3

\* get_all_laps: res['data'] for the races of the model.
RaceLaps ==
    UNION {{[i \in 1..n |-> [lap |-> i, times |-> LapTimings(tl[i])]] : tl \in [1..n -> TimingLists]} :
              n \in 0..MaxRaceLaps}

\* filter_laps_by_driver, lines 145-172, on the 'data' of laps with a
\* non-empty list of drivers: every lap is kept, with the timings of the
\* drivers asked for.
filter_laps_by_driver(data, drivers) ==
    [i \in DOMAIN data |->
        [lap |-> data[i].lap,
         times |-> SelectSeq(data[i].times, LAMBDA t : t.id \in drivers)]]

\* get_all_laps_for_driver, lines 527-585: the loop over the filtered laps
\* reads timing[0] of every lap.
get_all_laps_for_driver(driver, data) ==
    LET filtered_laps == filter_laps_by_driver(data, {driver})
        rows == [i \in DOMAIN filtered_laps |->
                    LET timing == Index(filtered_laps[i].times, 0)
                    IN IF timing.kind = "raise" THEN timing
                       ELSE Ret([Lap |-> filtered_laps[i].lap,
                                 Pos |-> timing.val[1].Pos,
                                 Time |-> timing.val[1].Time])]
    IN IF \E i \in DOMAIN rows : rows[i].kind = "raise"
       THEN Exc("IndexError")
       ELSE Ret([i \in DOMAIN rows |-> rows[i].val])

NoLaps == [driver |-> "", out |-> NotCalled]

\* The laps command asks for the laps of one driver.
GetAllLapsForDriver(driver) ==
    /\ driver_laps.out.kind = "none"
    /\ driver_laps' = [driver |-> driver, out |-> get_all_laps_for_driver(driver, race_laps)]
    /\ UNCHANGED race_laps

(***************************************************************************)
(* Specifications.                                                         *)
(***************************************************************************)

InitErgast ==
    /\ call = IdleCall
    /\ sub = [q \in SubQueries |-> IdleSub]
    /\ gather = NoGather

InitFetchPart ==
    /\ use_cache = TRUE
    /\ ff1_cache_enabled = TRUE
    /\ cache = [k \in Urls |-> NoEntry]
    /\ req = [f \in Fetchers |-> IdleReq]
    /\ last = NoFetch
    /\ timers = <<>>
    /\ ncalls = 0
    /\ ndisable = 0

\* The list in drivers.json when the endpoints and the fetcher are exercised.
LoadedDrivers ==
    <<[driverId |-> "hamilton", code |-> "HAM", permanentNumber |-> "44",
       givenName |-> "Lewis", familyName |-> "Hamilton"]>>

InitResolvePart ==
    /\ DRIVERS = LoadedDrivers
    /\ lookup = NoLookup

InitRankPart ==
    /\ timings = [data |-> <<>>]
    /\ given = timings
    /\ ranked = NotCalled
    /\ filtered = NoFilter

InitParsePart ==
    /\ document = NoNode
    /\ parsed = NoParse

InitStatsPart ==
    /\ session = [f1_api_support |-> TRUE, laps |-> <<>>]
    /\ stat = NoStat

InitConfigPart ==
    /\ _instance = NoInstance
    /\ allocated = 0
    /\ settings_loads = 0
    /\ bots_built = 0
    /\ exited = FALSE
    /\ config_calls = <<>>
    /\ files = [config |-> TRUE, sections |-> {"LOGGING", "GUILDS", "BOT"}, level |-> "INFO",
                guilds |-> <<>>, version |-> TRUE]

InitPitstopsPart ==
    /\ pitstops = [data |-> <<>>]
    /\ stops_ranked = NotCalled

InitCommandsPart ==
    /\ DISABLE_DM = FALSE
    /\ TABLE_DM = TRUE
    /\ running = {}
    /\ routed = <<>>
    /\ nmessages = 0

InitStatusPart ==
    /\ status_check = NoCheck

InitAdminPart ==
    /\ period_left = 0

InitLapsPart ==
    /\ race_laps = <<>>
    /\ driver_laps = NoLaps

Init == InitErgast /\ InitFetchPart /\ InitResolvePart /\ InitRankPart /\ InitParsePart /\ InitStatsPart /\ InitConfigPart /\ InitPitstopsPart /\ InitCommandsPart /\ InitStatusPart /\ InitAdminPart /\ InitLapsPart

InitResolve ==
    /\ InitErgast
    /\ InitFetchPart
    /\ DRIVERS \in DriverSets
    /\ lookup = NoLookup
    /\ InitRankPart
    /\ InitParsePart
    /\ InitStatsPart
    /\ InitConfigPart
    /\ InitPitstopsPart
    /\ InitCommandsPart
    /\ InitStatusPart
    /\ InitAdminPart
    /\ InitLapsPart

InitRank ==
    /\ InitErgast
    /\ InitFetchPart
    /\ InitResolvePart
    /\ timings \in [data : LapLists]
    /\ given = timings
    /\ ranked = NotCalled
    /\ filtered = NoFilter
    /\ InitParsePart
    /\ InitStatsPart
    /\ InitConfigPart
    /\ InitPitstopsPart
    /\ InitCommandsPart
    /\ InitStatusPart
    /\ InitAdminPart
    /\ InitLapsPart

NextErgast ==
    \/ \E fn \in Endpoints : CallEndpoint(fn)
    \/ \E net \in NetEvents : EndpointResponse(net)
    \/ \E net \in NetEvents : PitstopsResultsResponse(net)
    \/ CallCareer
    \/ \E q \in SubQueries, net \in NetEvents : SubResponse(q, net)
    \/ CareerResume

SpecErgast == Init /\ [][NextErgast /\ UNCHANGED <<fetchVars, resolveVars, rankVars, parseVars, statsVars, configVars, pitVars, commandVars, statusVars, adminVars, lapsVars>>]_vars

NextFetch ==
    \/ \E f \in Fetchers, u \in Urls : FetchCall(f, u)
    \/ \E f \in Fetchers, st \in HttpStatuses, ct \in ContentTypes : FetchResponse(f, st, ct)
    \/ \E f \in Fetchers : FetchClientError(f)
    \/ \E f \in Fetchers : FetchTimeout(f)
    \/ \E m \in Minutes : disable_cache(m)
    \/ \E i \in 1..MaxDisables : _enable_cache(i)
    \/ \E d \in Deadlines : Tick(d)

SpecFetch == Init /\ [][NextFetch /\ UNCHANGED <<ergastVars, resolveVars, rankVars, parseVars, statsVars, configVars, pitVars, commandVars, statusVars, adminVars, lapsVars>>]_vars

\* The event loop runs every due callback: a sleeping task whose time has come
\* is resumed, a request whose timeout has run out is ended, and time goes on.
FairSpecFetch ==
    /\ SpecFetch
    /\ WF_fetchVars(\E d \in Deadlines : Tick(d))
    /\ WF_fetchVars(\E i \in 1..MaxDisables : _enable_cache(i))
    /\ WF_fetchVars(\E f \in Fetchers : FetchTimeout(f))

NextResolve == \E x \in Queries : GetDriverInfo(x)

SpecResolve ==
    InitResolve /\ [][NextResolve /\ UNCHANGED <<ergastVars, fetchVars, rankVars, parseVars, statsVars, configVars, pitVars, commandVars, statusVars, adminVars, lapsVars>>]_vars

NextRank ==
    \/ RankBestLapTimes
    \/ \E f \in Filters : FilterTimes(f)

SpecRank ==
    InitRank /\ [][NextRank /\ UNCHANGED <<ergastVars, fetchVars, resolveVars, parseVars, statsVars, configVars, pitVars, commandVars, statusVars, adminVars, lapsVars>>]_vars

NextParse == \E fn \in ParsedEndpoints : ParseResponse(fn)

SpecParse ==
    Init /\ [][NextParse /\ UNCHANGED <<ergastVars, fetchVars, resolveVars, rankVars, statsVars, configVars, pitVars, commandVars, statusVars, adminVars, lapsVars>>]_vars

InitStats ==
    /\ InitErgast
    /\ InitFetchPart
    /\ InitResolvePart
    /\ InitRankPart
    /\ InitParsePart
    /\ session \in Sessions
    /\ stat = NoStat
    /\ InitConfigPart
    /\ InitPitstopsPart
    /\ InitCommandsPart
    /\ InitStatusPart
    /\ InitAdminPart
    /\ InitLapsPart

NextStats ==
    \/ \E d \in DriverArgs : TyreStints(d)
    \/ stat.fn = "" /\ \E ls \in TelemetryOf : Minisectors(ls)
    \/ TeamPace
    \/ \E t \in TyreArgs : FastestLaps(t)
    \/ \E t \in TyreArgs : Sectors(t)
    \/ TyrePerformance

SpecStats ==
    InitStats /\ [][NextStats /\ UNCHANGED <<ergastVars, fetchVars, resolveVars, rankVars, parseVars, configVars, pitVars, commandVars, statusVars, adminVars, lapsVars>>]_vars

InitConfig ==
    /\ InitErgast
    /\ InitFetchPart
    /\ InitResolvePart
    /\ InitRankPart
    /\ InitParsePart
    /\ InitStatsPart
    /\ _instance = NoInstance
    /\ allocated = 0
    /\ settings_loads = 0
    /\ bots_built = 0
    /\ exited = FALSE
    /\ config_calls = <<>>
    /\ files \in FileStates
    /\ InitPitstopsPart
    /\ InitCommandsPart
    /\ InitStatusPart
    /\ InitAdminPart
    /\ InitLapsPart

NextConfig == ConfigNew

SpecConfig ==
    InitConfig /\ [][NextConfig /\ UNCHANGED <<ergastVars, fetchVars, resolveVars, rankVars, parseVars, statsVars, pitVars, commandVars, statusVars, adminVars, lapsVars>>]_vars

InitPitstops ==
    /\ InitErgast
    /\ InitFetchPart
    /\ InitResolvePart
    /\ InitRankPart
    /\ InitParsePart
    /\ InitStatsPart
    /\ InitConfigPart
    /\ pitstops \in [data : StopLists]
    /\ stops_ranked = NotCalled
    /\ InitCommandsPart
    /\ InitStatusPart
    /\ InitAdminPart
    /\ InitLapsPart

NextPitstops == RankPitstops

SpecPitstops ==
    InitPitstops /\ [][NextPitstops /\ UNCHANGED <<ergastVars, fetchVars, resolveVars, rankVars, parseVars, statsVars, configVars, commandVars, statusVars, adminVars, lapsVars>>]_vars

InitCommands ==
    /\ InitErgast
    /\ InitFetchPart
    /\ InitResolvePart
    /\ InitRankPart
    /\ InitParsePart
    /\ InitStatsPart
    /\ InitConfigPart
    /\ InitPitstopsPart
    /\ DISABLE_DM = FALSE
    /\ TABLE_DM \in BOOLEAN
    /\ running = {}
    /\ routed = <<>>
    /\ nmessages = 0
    /\ InitStatusPart
    /\ InitAdminPart
    /\ InitLapsPart

NextCommands ==
    \/ \E m \in Messages : OnMessage(m)
    \/ \E c \in running : OnCommandCompletion(c)
    \/ \E c \in running : OnCommandError(c)

SpecCommands ==
    InitCommands /\ [][NextCommands /\ UNCHANGED <<ergastVars, fetchVars, resolveVars, rankVars, parseVars, statsVars, configVars, pitVars, statusVars, adminVars, lapsVars>>]_vars

NextStatus ==
    \/ CallCheckStatus
    \/ \E net \in NetEvents, delta \in Delays : StatusResponse(net, delta)

SpecStatus ==
    Init /\ [][NextStatus /\ UNCHANGED <<ergastVars, fetchVars, resolveVars, rankVars, parseVars, statsVars, configVars, pitVars, commandVars, adminVars, lapsVars>>]_vars

NextAdmin ==
    \/ \E m \in Minutes : AdminDisableCache(m)
    \/ \E i \in 1..MaxCommands : AdminEnableCache(i)
    \/ \E d \in Pauses : AdminTick(d)

SpecAdmin ==
    Init /\ [][NextAdmin /\ UNCHANGED <<ergastVars, resolveVars, rankVars, parseVars, statsVars, configVars, pitVars, commandVars, statusVars, lapsVars>>]_vars

InitLaps ==
    /\ InitErgast
    /\ InitFetchPart
    /\ InitResolvePart
    /\ InitRankPart
    /\ InitParsePart
    /\ InitStatsPart
    /\ InitConfigPart
    /\ InitPitstopsPart
    /\ InitCommandsPart
    /\ InitStatusPart
    /\ InitAdminPart
    /\ race_laps \in RaceLaps
    /\ driver_laps = NoLaps

NextLaps == \E d \in RaceDrivers : GetAllLapsForDriver(d)

SpecLaps ==
    InitLaps /\ [][NextLaps /\ UNCHANGED <<ergastVars, fetchVars, resolveVars, rankVars, parseVars, statsVars, configVars, pitVars, commandVars, statusVars, adminVars>>]_vars

(***************************************************************************)
(* Properties of the endpoint functions (SpecErgast).                      *)
(***************************************************************************)

SubReturnedNone(q) == sub[q].pc = "done" /\ sub[q].fetched = Returned(None, 0)
NoFetchRaised == \A q \in SubQueries : sub[q].fetched.kind # "raise"
CareerDone == call.fn = "get_driver_career" /\ call.pc = "done"

\* C1: when the fetch of any of the five career sub-queries returns None (and
\* no fetch raises), get_driver_career fails with MissingDataError: it returns
\* no summary and fails with no other type of error.
C1_CareerFailsWithMissingData ==
    (CareerDone /\ NoFetchRaised /\ \E q \in SubQueries : SubReturnedNone(q))
        => call.out = Raised("MissingDataError")

\* C2: when get_driver_career has returned or raised, none of its five
\* sub-queries is still running.
C2_NoSubQueryOutlivesCareer ==
    CareerDone => \A q \in SubQueries : sub[q].pc = "done"

\* C3: every endpoint function whose fetch returned None raises
\* MissingDataError; none returns a value.
C3_EndpointRaisesMissingData ==
    (call.fn \in Endpoints /\ call.pc = "done" /\ call.fetched = Returned(None, 0))
        => call.out = Raised("MissingDataError")

\* C4: fetch returns None, and lets no exception escape, when the response
\* status is not 200 or the request fails with a client error; it returns a
\* payload only for a 200 response.
C4_FetchNoneOnFailure ==
    (call.fn \in Endpoints /\ call.pc = "done")
        => /\ (call.net.ev = "response" /\ call.net.status = 200)
                => (call.fetched.kind = "return" /\ call.fetched.val # None)
           /\ ((call.net.ev = "response" /\ call.net.status # 200)
                \/ call.net.ev = "ClientError")
                => call.fetched = Returned(None, 0)

AllSucceeded == \A q \in SubQueries : sub[q].pc = "done" /\ IsDict(sub[q].out)
SummaryBuilt == CareerDone /\ call.out.kind = "return"

TimedOut == last.net.ev = "TimeoutError"

\* C5 as stated: a request that exceeds SESSION_TIMEOUT makes fetch return
\* None, in bounded time and with no exception escaping.
C5_TimeoutReturnsNone ==
    /\ \A f \in Inflight : req[f].left \in 0..SESSION_TIMEOUT
    /\ TimedOut => last.out = ReturnedNone

\* C5: a request is never in flight for longer than SESSION_TIMEOUT, and when
\* the timeout runs out fetch ends by raising asyncio.TimeoutError to its
\* caller: it does not hang and it does not return None.
C5_TimeoutEscapes ==
    /\ \A f \in Inflight : req[f].left \in 0..SESSION_TIMEOUT
    /\ TimedOut => last.out = Escaped("TimeoutError")

C5_Witness == TimedOut /\ last.out.kind = "raise"

\* The payload fetch decodes from a stored response.
StoredPayload(e) ==
    Payload(CASE e.content_type = "application/xml" -> "bytes"
              [] e.content_type = "application/json" -> "json"
              [] OTHER -> "text", e.url)

\* C6: with caching enabled, the fetch of a URL that has no entry goes to the
\* network; once a response to u is stored, every fetch(u) before the entry
\* expires returns the stored payload without a network request; entries are
\* those of the exact URL, and none is lost before it expires.
C6_CacheHit ==
    [][/\ \A f \in Fetchers, u \in Urls :
            (use_cache /\ FetchCall(f, u)) =>
                IF cache[u] = NoEntry
                THEN req'[f].pc = "inflight" /\ req'[f].url = u /\ last' = last
                ELSE ~is_expired(cache[u]) =>
                        /\ req' = req
                        /\ cache[u].url = u
                        /\ last'.net.ev = "cache"
                        /\ last'.out = StoredPayload(cache[u])
                        /\ last'.out.url = u
       /\ \A u \in Urls :
            (cache[u] # NoEntry /\ cache[u].left > 0) =>
                (cache'[u] # NoEntry /\ cache'[u].url = u)]_vars

C6_Witness == last.net.ev = "cache" /\ last.out.kind = "return" /\ last.out.url = last.url

\* The expiry the cache configuration is said to give a URL.
IsPrefix(p, u) == Len(u) >= Len(p) /\ SubSeq(u, 1, Len(p)) = p
ClaimedExpiry(u) ==
    IF u = <<BASE, "/", "drivers">> THEN WEEK
    ELSE IF IsPrefix(<<BASE, "/", "drivers", "/">>, u) THEN HOUR
    ELSE IF u = <<BASE, "/", "current", "/", "next">> THEN TEN_MINUTES
    ELSE IF IsPrefix(<<BASE, "/", "current", "/", "last", "/">>, u) THEN TEN_MINUTES
    ELSE TWO_DAYS

\* C7: a stored response expires by its URL: the driver listing after one
\* week, a single-driver lookup BASE/drivers/{id} after one hour, the
\* next-race URL after ten minutes, every other URL after two days.
C7_ExpiryByUrl ==
    \A k \in Urls : cache[k] # NoEntry => cache[k].expire_after = ClaimedExpiry(cache[k].url)

\* C8: while use_cache is False a fetch neither reads nor writes the cache
\* (it goes to the network whatever is stored, and its response is not
\* stored), and use_cache always becomes True again.
C8_BypassIsTemporary ==
    /\ [][\A f \in Fetchers, u \in Urls :
            (~use_cache /\ FetchCall(f, u)) =>
                (req'[f].pc = "inflight" /\ req'[f].bypass /\ cache' = cache)]_vars
    /\ [][\A f \in Fetchers :
            (req[f].pc = "inflight" /\ req[f].bypass /\ req'[f].pc = "idle")
                => cache' = cache]_vars
    /\ (~use_cache ~> use_cache)

C8_Witness ==
    /\ ndisable > 0
    /\ use_cache
    /\ last.bypass
    /\ last.net.ev = "response" /\ last.net.status = 200
    /\ cache[last.url] = NoEntry

(***************************************************************************)
(* Properties of find_driver and get_driver_info (SpecResolve).            *)
(***************************************************************************)

\* The id, code and number values a driver has.
Fields(d) == {d.driverId} \cup ({d.code, d.permanentNumber} \ {Absent})
FieldsCI(d) == {lower(v) : v \in Fields(d)}

Unshared(ds) ==
    \A i, j \in DOMAIN ds : i # j => Fields(ds[i]) \cap Fields(ds[j]) = {}
UnsharedCI(ds) ==
    \A i, j \in DOMAIN ds : i # j => FieldsCI(ds[i]) \cap FieldsCI(ds[j]) = {}

Resolves(d) ==
    /\ lookup.found = Found(d)
    /\ lookup.info.kind = "return"
    /\ lookup.info.id = d.driverId

\* C9 as stated: in a driver set where no id, code or number value is shared
\* by two drivers, find_driver with d's driverId, code or permanentNumber
\* returns d, and get_driver_info reports d's id.
C9_OwnFieldResolves ==
    Unshared(DRIVERS) =>
        \A i \in DOMAIN DRIVERS :
            lookup.id \in Fields(DRIVERS[i]) => Resolves(DRIVERS[i])

\* C9: in a driver set where no id, code or number of one driver equals,
\* letter case ignored, an id, code or number of another, find_driver with
\* d's driverId, code or permanentNumber returns d, and get_driver_info
\* reports d's id.
C9_OwnFieldResolvesCI ==
    UnsharedCI(DRIVERS) =>
        \A i \in DOMAIN DRIVERS :
            lookup.id \in Fields(DRIVERS[i]) => Resolves(DRIVERS[i])

C9_Witness ==
    /\ Len(DRIVERS) = 2
    /\ UnsharedCI(DRIVERS)
    /\ lookup.id = DRIVERS[2].code
    /\ lookup.id # DRIVERS[2].driverId
    /\ Resolves(DRIVERS[2])

IdMatch(d, x) == lower(d.driverId) = lower(x)
CodeMatch(d, x) == d.code # Absent /\ lower(d.code) = lower(x)
NumMatch(d, x) == d.permanentNumber # Absent /\ d.permanentNumber = x

\* The criterion by which d matches x: 1 id, 2 code, 3 number, 4 none.
Rank(d, x) ==
    IF IdMatch(d, x) THEN 1
    ELSE IF CodeMatch(d, x) THEN 2
    ELSE IF NumMatch(d, x) THEN 3
    ELSE 4

\* C10 as stated: over the whole set an id match takes precedence over a code
\* or number match and a code match over a number match, whatever the order
\* of the drivers: no driver matches x by a criterion of higher priority than
\* the driver find_driver returns.
C10_PriorityOverSet ==
    (lookup.id # "" /\ lookup.found.kind = "return") =>
        \A i \in DOMAIN DRIVERS :
            Rank(lookup.found.driver, lookup.id) <= Rank(DRIVERS[i], lookup.id)

\* C10: find_driver returns the first driver, in the order of the set, that
\* matches x by id, code or number; when x is the id of A and the code or
\* number of B, the result is whichever of the two comes first.
C10_FirstInOrder ==
    lookup.id # "" =>
        \A i \in DOMAIN DRIVERS :
            (/\ Rank(DRIVERS[i], lookup.id) < 4
             /\ \A j \in DOMAIN DRIVERS : j < i => Rank(DRIVERS[j], lookup.id) = 4)
                => lookup.found = Found(DRIVERS[i])

C10_Witness ==
    /\ Len(DRIVERS) = 2
    /\ Rank(DRIVERS[1], lookup.id) \in {2, 3}
    /\ Rank(DRIVERS[2], lookup.id) = 1
    /\ lookup.found = Found(DRIVERS[1])

\* The identifiers that are a name or a fragment of a name.
IsFragment(x, name) ==
    \/ x = name
    \/ (x = "Alon" /\ name = "Alonso")

NameMatch(d, x) == IsFragment(x, d.givenName) \/ IsFragment(x, d.familyName)

\* C11: an identifier that matches no driver's id, code or number but is a
\* fragment of a driver's given or family name resolves to that driver, the
\* first such driver in the order of the set.
C11_NameFragmentResolves ==
    \A i \in DOMAIN DRIVERS :
        (/\ \A j \in DOMAIN DRIVERS : Rank(DRIVERS[j], lookup.id) = 4
         /\ NameMatch(DRIVERS[i], lookup.id)
         /\ \A j \in DOMAIN DRIVERS : j < i => ~NameMatch(DRIVERS[j], lookup.id))
            => lookup.found = Found(DRIVERS[i])

\* A driver matches an identifier by id, code, number or name.
Matching(x) ==
    {i \in DOMAIN DRIVERS : Rank(DRIVERS[i], x) < 4 \/ NameMatch(DRIVERS[i], x)}

\* C12: find_driver raises DriverNotFoundError exactly when no driver of the
\* set matches the identifier; what it returns is a record of the set that
\* matches the identifier, never None.
C12_NotFoundExactly ==
    lookup.id # "" =>
        /\ lookup.found.kind = "raise" <=> Matching(lookup.id) = {}
        /\ lookup.found.kind = "raise" => lookup.found.exc = "DriverNotFoundError"
        /\ lookup.found.kind = "return" =>
                \E i \in Matching(lookup.id) : lookup.found.driver = DRIVERS[i]

\* The same with the criteria find_driver implements (id, code, number).
C12_NotFoundExactlyByKey ==
    lookup.id # "" =>
        /\ lookup.found.kind = "raise" <=> (\A i \in DOMAIN DRIVERS : Rank(DRIVERS[i], lookup.id) = 4)
        /\ lookup.found.kind = "return" =>
                \E i \in DOMAIN DRIVERS :
                    Rank(DRIVERS[i], lookup.id) < 4 /\ lookup.found.driver = DRIVERS[i]

(***************************************************************************)
(* Properties of ranking and filtering (SpecRank).                         *)
(***************************************************************************)

Min(a, b) == IF a < b THEN a ELSE b
Suffix(s, n) == SubSeq(s, Len(s) - n + 1, Len(s))
Prefix(s, n) == SubSeq(s, 1, n)

\* C17: on a ranked sequence of length n, filter_times with 'bottom' returns
\* its last min(5, n) entries in their ranked order.
C17_BottomIsSuffix ==
    filtered.filter = "bottom" =>
        filtered.out = Ret(Suffix(ranked.val, Min(5, Len(ranked.val))))

\* C18: ranking a collection and filtering with 'top' gives min(5, n) entries,
\* n the size of the collection, and they are a prefix of the ranking.
C18_TopIsPrefix ==
    filtered.filter = "top" =>
        /\ filtered.out.kind = "return"
        /\ Len(filtered.out.val) = Min(5, Len(given.data))
        /\ filtered.out.val = Prefix(ranked.val, Len(filtered.out.val))

C18_Witness ==
    /\ filtered.filter = "top"
    /\ Len(given.data) > 5
    /\ Len(filtered.out.val) = 5
    /\ ranked.val # given.data

\* C19: on a non-empty ranked sequence r, 'fastest' gives the list [r[0]],
\* 'slowest' the list holding the last entry of r, always a list of one
\* entry; a filter value that is none of slowest, fastest, top and bottom
\* gives r itself.
C19_SingleEntryLists ==
    (ranked.kind = "return" /\ ranked.val # <<>>) =>
        /\ filtered.filter = "fastest" => filtered.out = Ret(<<ranked.val[1]>>)
        /\ filtered.filter = "slowest" => filtered.out = Ret(<<ranked.val[Len(ranked.val)]>>)
        /\ filtered.filter \in Filters \ {"slowest", "fastest", "top", "bottom"}
                => filtered.out = Ret(ranked.val)

C19_Witness ==
    /\ filtered.filter = "slowest"
    /\ Len(ranked.val) >= 2
    /\ filtered.out.kind = "return"
    /\ filtered.out.val # <<ranked.val[1]>>

\* The entries of s with key value k, in their order.
WithKey(s, k) == SelectSeq(s, LAMBDA e : e.Rank = k)

\* C20: rank_best_lap_times returns the entries of its input in non-decreasing
\* 'Rank' order, each as often as the input holds it, entries of equal rank in
\* their input order, and the input is left as it was.
C20_StableRanking ==
    ranked.kind = "return" =>
        /\ timings = given
        /\ Len(ranked.val) = Len(given.data)
        /\ \A i, j \in DOMAIN ranked.val : i < j => ranked.val[i].Rank <= ranked.val[j].Rank
        /\ \A k \in 1..2 : WithKey(ranked.val, k) = WithKey(given.data, k)

C20_Witness ==
    /\ ranked.kind = "return"
    /\ ranked.val # given.data
    /\ \E i, j \in DOMAIN ranked.val :
          i < j /\ ranked.val[i].Rank = ranked.val[j].Rank /\ ranked.val[i] # ranked.val[j]

(***************************************************************************)
(* Properties of what the endpoints read from a document (SpecParse).      *)
(***************************************************************************)

\* The child element of el with that tag name, NoNode if it has none.
Child(el, name) ==
    IF \E i \in DOMAIN el.kids : el.kids[i].tag = name
    THEN el.kids[CHOOSE i \in DOMAIN el.kids :
                    /\ el.kids[i].tag = name
                    /\ \A j \in DOMAIN el.kids : j < i => el.kids[j].tag # name]
    ELSE NoNode

\* The elements of the document an endpoint makes its entries from.
Results == FindAll(document.kids, "result")
QualifyingResults == FindAll(document.kids, "qualifyingresult")
Standings == FindAll(document.kids, "driverstanding")
Returns(fn) == parsed.fn = fn /\ parsed.out.kind = "return"

\* C13: in the output of get_race_results every entry of a result whose
\* status is not 'Finished' has a Time field that is None and a Status that
\* is the status text of the document.
C13_UnfinishedHasNoTime ==
    Returns("get_race_results") =>
        \A i \in DOMAIN parsed.out.data :
            Child(Results[i], "status").text # "Finished" =>
                /\ parsed.out.data[i].Time = None
                /\ parsed.out.data[i].Status = Child(Results[i], "status").text

\* The results of the document that have a FastestLap child.
WithFastestLap == SelectSeq(Results, LAMBDA r : Child(r, "fastestlap") # NoNode)

\* C14: the finish time reported for a result ('Time' in get_driver_wins) is
\* the text of the Time element that is a child of the Result, never that of
\* the Time inside its FastestLap, also when there is a FastestLap and no
\* finishing Time; the time in 'timings' is the one inside FastestLap.
C14_FinishTimeIsOwnChild ==
    /\ Returns("get_driver_wins") =>
          \A i \in DOMAIN parsed.out.data :
              parsed.out.data[i].Time =
                  (IF Child(Results[i], "time") = NoNode THEN None
                   ELSE Child(Results[i], "time").text)
    /\ Returns("get_race_results") =>
          /\ Len(parsed.out.timings) = Len(WithFastestLap)
          /\ \A j \in DOMAIN parsed.out.timings :
                parsed.out.timings[j].Time =
                    Child(Child(WithFastestLap[j], "fastestlap"), "time").text

\* What is to be reported for a Q element: None when it is absent (or holds
\* no text), its text otherwise.
QText(el, name) ==
    IF Child(el, name) = NoNode \/ Child(el, name).text = NoText
    THEN None
    ELSE Child(el, name).text

\* C15: get_qualifying_results and get_driver_poles report, for every
\* qualifying result, None for each of Q1, Q2, Q3 whose element is absent and
\* the element's text otherwise, and never raise over a missing element.
C15_MissingSessionIsNone ==
    parsed.fn \in {"get_qualifying_results", "get_driver_poles"} =>
        /\ parsed.out.kind = "return"
        /\ Len(parsed.out.data) = Len(QualifyingResults)
        /\ \A i \in DOMAIN parsed.out.data :
              /\ parsed.out.data[i].Q1 = QText(QualifyingResults[i], "q1")
              /\ parsed.out.data[i].Q2 = QText(QualifyingResults[i], "q2")
              /\ parsed.out.data[i].Q3 = QText(QualifyingResults[i], "q3")

C15_Witness ==
    /\ Returns("get_driver_poles")
    /\ Len(parsed.out.data) = 2
    /\ Child(QualifyingResults[2], "q3") = NoNode
    /\ parsed.out.data[2].Q3 = None
    /\ parsed.out.data[2].Q1 = QTime

\* Ten times the value of a decimal numeral with at most one decimal place.
TimesTen(str) ==
    IF \E i \in DOMAIN str : str[i] = "."
    THEN LET d == CHOOSE i \in DOMAIN str : str[i] = "."
         IN 10 * IntOf(SubSeq(str, 1, d - 1)) + IntOf(SubSeq(str, d + 1, d + 1))
    ELSE 10 * IntOf(str)

\* C16: get_driver_standings returns one entry per DriverStanding element,
\* in document order, with Pos, Points and Wins the integers that the
\* position, points and wins attributes denote, and the season and round of
\* the standings list.
C16_StandingsAsIntegers ==
    parsed.fn = "get_driver_standings" =>
        /\ parsed.out.kind = "return"
        /\ parsed.out.season = Season
        /\ parsed.out.round = Round
        /\ Len(parsed.out.data) = Len(Standings)
        /\ \A i \in DOMAIN parsed.out.data :
              /\ 10 * parsed.out.data[i].Pos = TimesTen(Standings[i].attrs["position"])
              /\ 10 * parsed.out.data[i].Points = TimesTen(Standings[i].attrs["points"])
              /\ 10 * parsed.out.data[i].Wins = TimesTen(Standings[i].attrs["wins"])

\* The same for documents whose points are whole numbers.
C16_WholePoints ==
    (/\ parsed.fn = "get_driver_standings"
     /\ \A i \in DOMAIN Standings :
            \A k \in DOMAIN Standings[i].attrs["points"] :
                Standings[i].attrs["points"][k] # ".")
        => /\ parsed.out.kind = "return"
           /\ Len(parsed.out.data) = Len(Standings)
           /\ \A i \in DOMAIN parsed.out.data :
                 10 * parsed.out.data[i].Points = TimesTen(Standings[i].attrs["points"])

(***************************************************************************)
(* Properties of the statistics functions (SpecStats).                     *)
(***************************************************************************)

Called(fn) == stat.fn = fn /\ stat.out.kind # "none"
LapsOf(d) == Cardinality({i \in DOMAIN session.laps : session.laps[i].Driver = d})

RECURSIVE SumLaps(_)
SumLaps(rows) == IF rows = <<>> THEN 0 ELSE Head(rows).Laps + SumLaps(Tail(rows))

\* C21: for every driver of the session, the 'Laps' counts of the rows
\* tyre_stints returns for that driver add up to the number of lap records the
\* session holds for that driver, for every lap table, also one in which laps
\* carry no compound or stint value.
C21_StintLapsAddUp ==
    (Called("tyre_stints") /\ stat.out.kind = "return") =>
        \A d \in Range(DriverOrder) :
            (stat.arg \in {None, d}) =>
                SumLaps(SelectSeq(stat.out.val, LAMBDA r : r.Driver = d)) = LapsOf(d)

SessionFunctions == {"tyre_stints", "team_pace", "fastest_laps", "sectors", "tyre_performance"}

\* C22 as stated: every statistics function, minisectors included, raises
\* MissingDataError and returns nothing when the session does not support
\* lap-level data.
C22_AllFailFast ==
    (stat.fn \in SessionFunctions \cup {"minisectors"} /\ ~session.f1_api_support) =>
        stat.out = Exc("MissingDataError")

\* C22: each of the functions that take the session (tyre_stints, team_pace,
\* fastest_laps, sectors, tyre_performance) raises MissingDataError and returns
\* nothing when the session does not support lap-level data; minisectors takes
\* laps, not the session, and computes its result whatever the session supports.
C22_SessionFunctionsFailFast ==
    /\ (stat.fn \in SessionFunctions /\ ~session.f1_api_support) =>
           stat.out = Exc("MissingDataError")
    /\ stat.fn = "minisectors" => stat.out.kind = "return"

C22_Witness ==
    /\ ~session.f1_api_support
    /\ Len(session.laps) > 0
    /\ stat.fn = "fastest_laps"
    /\ stat.out = Exc("MissingDataError")

\* C23: minisectors tags every telemetry sample, the one at the maximum
\* distance included, with an index floor(distance / (max_distance / 24)) + 1
\* that lies in 1..24.
C23_SectorInRange ==
    Called("minisectors") =>
        \A i \in DOMAIN stat.out.val :
            /\ stat.out.val[i].mSector =
                   ((NSectors * stat.out.val[i].Distance) \div MaxOf(Concat(stat.arg))) + 1
            /\ stat.out.val[i].mSector \in 1..NSectors

(***************************************************************************)
(* Properties of the Config singleton (SpecConfig).                        *)
(***************************************************************************)

ReturnedInstances == {config_calls[i].val : i \in {j \in DOMAIN config_calls : config_calls[j].kind = "return"}}

\* C25: after any sequence of Config() calls in one process, every call has
\* returned the same instance, and the settings file was loaded and the bot
\* client constructed exactly once, on the first call.
C25_Singleton ==
    config_calls # <<>> =>
        /\ Cardinality(ReturnedInstances) <= 1
        /\ ReturnedInstances # {} => (settings_loads = 1 /\ bots_built = 1)

\* When the first call completes, every call returns the instance it made and
\* nothing is loaded or constructed again.
C25_SingletonAfterFirstReturn ==
    (config_calls # <<>> /\ config_calls[1].kind = "return") =>
        /\ \A i \in DOMAIN config_calls : config_calls[i] = config_calls[1]
        /\ settings_loads = 1
        /\ bots_built = 1

(***************************************************************************)
(* Properties of the pit stop ranking (SpecPitstops).                      *)
(***************************************************************************)

\* C26: rank_pitstops orders the pit stops by increasing stop duration as a
\* time value: of any two stops the one with the shorter duration comes first,
\* whatever the textual form of the durations.
C26_RankedByTime ==
    stops_ranked.kind = "return" =>
        \A i, j \in DOMAIN stops_ranked.val :
            i < j => Tenths(stops_ranked.val[i].Duration) <= Tenths(stops_ranked.val[j].Duration)

\* The ranking is by the duration strings: no stop is followed by one whose
\* duration string is smaller, and the stops are those of the input.
C26_RankedByString ==
    stops_ranked.kind = "return" =>
        /\ Len(stops_ranked.val) = Len(pitstops.data)
        /\ \A i, j \in DOMAIN stops_ranked.val :
              i < j => ~StrLess(stops_ranked.val[j].Duration, stops_ranked.val[i].Duration)

(***************************************************************************)
(* Properties of the DISABLE_DM flag (SpecCommands).                       *)
(***************************************************************************)

\* C27: DISABLE_DM is True only while a command whose message carried the
\* 'no-dm' or 'public' flag is being processed; once it completes or fails the
\* flag is False again, a message that invokes no command never leaves it True,
\* and a command sent without the flag is routed according to the configuration.
C27_FlagOnlyDuringFlaggedCommand ==
    /\ DISABLE_DM => \E c \in running : c.flag
    /\ \A i \in DOMAIN routed :
          ~routed[i].flag => routed[i].target = get_target(FALSE, TABLE_DM)

\* A command whose own message carried the flag is answered in the channel.
C27_FlaggedCommandIsPublic ==
    \A i \in DOMAIN routed : routed[i].flag => routed[i].target = "channel"

(***************************************************************************)
(* Properties of check_status (SpecStatus).                                *)
(***************************************************************************)

Answered == status_check.pc = "done" /\ status_check.net.ev = "response" /\ status_check.net.status = 200
NoResponse == status_check.pc = "done" /\ status_check.net.ev = "ClientError"

\* C28: check_status returns 0 when the statistics service gives no response,
\* 1 when it answers within 5 seconds, 2 when it answers in more than 5 and at
\* most 15 seconds, and 3 when it takes more than 15 seconds.
C28_StatusByDelay ==
    /\ NoResponse => status_check.out = Ret(0)
    /\ (Answered /\ status_check.delta <= 50) => status_check.out = Ret(1)
    /\ (Answered /\ status_check.delta > 50 /\ status_check.delta <= 150) => status_check.out = Ret(2)
    /\ (Answered /\ status_check.delta > 150) => status_check.out = Ret(3)

\* What check_status returns: 0 without a response, 1 for an answer that took
\* less than 6 seconds, 2 for any slower answer, and never 3.
C28_StatusAsCoded ==
    /\ NoResponse => status_check.out = Ret(0)
    /\ (Answered /\ status_check.delta < 60) => status_check.out = Ret(1)
    /\ (Answered /\ status_check.delta >= 60) => status_check.out = Ret(2)
    /\ status_check.out # Ret(3)

(***************************************************************************)
(* Properties of overlapping disable-cache commands (SpecAdmin).           *)
(***************************************************************************)

\* C29: after every disable-cache command with duration m, caching stays
\* disabled for the whole m minutes that follow it, also when the timer of an
\* earlier command is still pending: no re-enable scheduled by an earlier
\* command turns use_cache on before the latest command's duration has elapsed.
C29_DisabledForWholePeriod ==
    period_left > 0 => ~use_cache

\* Caching is off until the first of the pending timers fires, and on from
\* then until the next command: the flag is off exactly while no
\* _enable_cache has run since the latest command.
C29_DisabledUntilFirstTimer ==
    [][(use_cache' /\ ~use_cache) =>
          (\E i \in DOMAIN timers : timers[i] = 0 /\ timers' = RemoveAt(timers, i))]_vars

(***************************************************************************)
(* Properties of get_all_laps_for_driver (SpecLaps).                       *)
(***************************************************************************)

HasTiming(lap, d) == \E i \in DOMAIN lap.times : lap.times[i].id = d
LapsDriven(d) == SelectSeq(race_laps, LAMBDA lap : HasTiming(lap, d))
AskedFor == driver_laps.out.kind # "none"

\* C30: get_all_laps_for_driver returns exactly one entry per lap in which the
\* driver has a timing, in lap order, and completes without error when the
\* driver has no timing on some laps of the race.
C30_OneEntryPerLapDriven ==
    AskedFor =>
        /\ driver_laps.out.kind = "return"
        /\ Len(driver_laps.out.val) = Len(LapsDriven(driver_laps.driver))
        /\ \A i \in DOMAIN driver_laps.out.val :
              driver_laps.out.val[i].Lap = LapsDriven(driver_laps.driver)[i].lap

\* For a driver with a timing on every lap there is one entry per lap, in lap
\* order; for any other driver the call ends with IndexError.
C30_EveryLapOrIndexError ==
    AskedFor =>
        IF \A i \in DOMAIN race_laps : HasTiming(race_laps[i], driver_laps.driver)
        THEN /\ driver_laps.out.kind = "return"
             /\ Len(driver_laps.out.val) = Len(race_laps)
             /\ \A i \in DOMAIN race_laps : driver_laps.out.val[i].Lap = race_laps[i].lap
        ELSE driver_laps.out = Exc("IndexError")

=============================================================================
